---- MODULE Spec2Model ----
(***************************************************************************)
(* Checkpoint-based outcome tracking of token signals: the token_snapshots *)
(* table (database.py), the exclusion classifier (insert_snapshot), the    *)
(* checkpoint scheduler (get_tokens_for_checkpoint), the outcome recorder  *)
(* (update_token_checkpoint) and the checkpoint pass (check_outcomes.py).  *)
(*                                                                         *)
(* Values.  Every Python / SQL number is an exact rational <<n, d>> in     *)
(* lowest terms with d > 0 (R(5) = <<5, 1>>); Python None / SQL NULL is    *)
(* the empty tuple.  Money is counted in thousands of dollars.  Timestamps *)
(* are integer seconds, as int(time.time()) gives them.                    *)
(***************************************************************************)
EXTENDS Integers, Sequences, FiniteSets, TLC

VARIABLES
    token_snapshots,  \* the rows of table token_snapshots
    now,              \* int(time.time())
    used,             \* how much of each bound the behaviour has used up
    ret,              \* what the last operation returned or raised
    pass,             \* the checkpoint pass in progress (check_outcomes.py)
    inflight,         \* per process, the recorder call it is in the middle of
    wallet_stats,     \* the rows of table wallet_stats
    fetch,            \* the two provider calls of the check in progress
    listener_stats,   \* stats, the counters of the listener (main.py)
    handling          \* per handler, the message it is in the middle of

vars ==
    <<token_snapshots, now, used, ret, pass, inflight, wallet_stats, fetch,
      listener_stats, handling>>

-----------------------------------------------------------------------------
(* Numbers *)

NULL == <<>>

RECURSIVE GCD(_, _)
GCD(a, b) == IF b = 0 THEN a ELSE GCD(b, a % b)

\* n / d as a rational in lowest terms (d > 0, n >= 0)
Frac(n, d) == LET g == GCD(n, d) IN <<n \div g, d \div g>>

R(n) == <<n, 1>>

FLe(x, y) == x[1] * y[2] <= y[1] * x[2]
FLt(x, y) == x[1] * y[2] < y[1] * x[2]
FGe(x, y) == FLe(y, x)
FGt(x, y) == FLt(y, x)
FMax(x, y) == IF FLt(x, y) THEN y ELSE x
FDiv(x, y) == Frac(x[1] * y[2], x[2] * y[1])
FMul(x, y) == Frac(x[1] * y[1], x[2] * y[2])

\* Python truthiness of a number-or-None, and `x or y`
Truthy(x) == x # NULL /\ x[1] # 0
Or(x, y) == IF Truthy(x) THEN x ELSE y

-----------------------------------------------------------------------------
(* database.py: the table and record creation *)

\* CHECKPOINTS: name -> seconds delay, in the dict's insertion order
\* the checkpoints from the longest delay to the shortest
CheckpointOrderDescending == <<"7d", "24h", "6h", "3h", "1h", "20min", "5min">>

CheckpointOrder == <<"5min", "20min", "1h", "3h", "6h", "24h", "7d">>

CheckpointNames == {CheckpointOrder[i] : i \in 1..Len(CheckpointOrder)}

CHECKPOINTS ==
    [c \in CheckpointNames |->
        CASE c = "5min"  -> 5 * 60
          [] c = "20min" -> 20 * 60
          [] c = "1h"    -> 60 * 60
          [] c = "3h"    -> 3 * 60 * 60
          [] c = "6h"    -> 6 * 60 * 60
          [] c = "24h"   -> 24 * 60 * 60
          [] c = "7d"    -> 7 * 24 * 60 * 60]

\* the reached_xN columns
Thresholds == {2, 3, 5, 10, 20, 50, 100}

\* the seven columns mc_c, ath_c, holders_c, liquidity_c, price_c, buys_c,
\* sells_c of one checkpoint c; all NULL until the checkpoint is recorded
NullSample ==
    [mc |-> NULL, ath |-> NULL, holders |-> NULL, liquidity |-> NULL,
     price |-> NULL, buys |-> NULL, sells |-> NULL]

\* calculate_time_fields, for timestamps in January and February 1970
\* (1970-01-01 is a Thursday, weekday 3, in ISO week 1)
calculate_time_fields(timestamp) ==
    LET days == timestamp \div 86400 IN
    [day_of_week |-> (days + 3) % 7,
     hour_utc    |-> (timestamp \div 3600) % 24,
     week_number |-> ((days + 3) \div 7) + 1,
     month       |-> IF days < 31 THEN 1 ELSE 2]

\* Classify excluding a ratio of exactly one half as well
ClassifyAtMostHalf(data) ==
    LET api_mc == Or(data.api_mc_usd, R(0))
        ath_mc == Or(data.ath_market_cap, R(0))
    IN  IF FGt(ath_mc, R(0))
        THEN LET ath_ratio == FDiv(api_mc, ath_mc)
             IN  <<ath_ratio, IF FLe(ath_ratio, Frac(1, 2)) THEN 1 ELSE 0>>
        ELSE <<data.ath_ratio, 1>>

\* the exclusion classifier of insert_snapshot: <<ath_ratio, excluded>>
\* (ath_ratio keeps the value data carries when ATH-at-detection is not > 0)
Classify(data) ==
    LET api_mc == Or(data.api_mc_usd, R(0))
        ath_mc == Or(data.ath_market_cap, R(0))
    IN  IF FGt(ath_mc, R(0))
        THEN LET ath_ratio == FDiv(api_mc, ath_mc)
             IN  <<ath_ratio, IF FLt(ath_ratio, Frac(1, 2)) THEN 1 ELSE 0>>
        ELSE <<data.ath_ratio, 1>>

\* the row INSERT builds from data: columns data does not name are NULL
NewRow(data, clock) ==
    LET first_detected_at ==
            IF data.first_detected_at = 0 THEN clock ELSE data.first_detected_at
        time_fields == calculate_time_fields(first_detected_at)
        cls == Classify(data)
    IN  [contract_address       |-> data.contract_address,
         wallet_name            |-> data.wallet_name,
         first_detected_at      |-> first_detected_at,
         api_mc_usd             |-> data.api_mc_usd,
         ath_market_cap         |-> data.ath_market_cap,
         ath_ratio              |-> cls[1],
         excluded_from_analysis |-> cls[2],
         day_of_week            |-> time_fields.day_of_week,
         hour_utc               |-> time_fields.hour_utc,
         week_number            |-> time_fields.week_number,
         month                  |-> time_fields.month,
         samples                |-> [c \in CheckpointNames |-> NullSample],
         current_ath_usd        |-> NULL,
         true_multiple          |-> NULL,
         reached                |-> [n \in Thresholds |-> NULL]]

\* token_exists
token_exists(table, contract_address) ==
    \E row \in table : row.contract_address = contract_address

\* a plain INSERT into a table without the primary key
InsertAlways(table, row) == table \cup {row}

\* INSERT OR IGNORE on the primary key contract_address
InsertOrIgnore(table, row) ==
    IF token_exists(table, row.contract_address) THEN table ELSE table \cup {row}

\* insert_snapshot returning True whether or not the row was stored
insert_snapshot_true(table, data, clock) ==
    [table |-> InsertOrIgnore(table, NewRow(data, clock)), inserted |-> TRUE]

\* insert_snapshot: the table afterwards and the value returned
insert_snapshot(table, data, clock) ==
    LET after == InsertOrIgnore(table, NewRow(data, clock))
    IN  [table |-> after, inserted |-> after # table]

-----------------------------------------------------------------------------
(* database.py: the checkpoint scheduler *)

\* Due that takes a record with any checkpoint recorded as done
DueNeverRecorded(row, checkpoint, clock) ==
    /\ row.current_ath_usd = NULL
    /\ row.first_detected_at < clock - CHECKPOINTS[checkpoint]

\* Due without the IS NULL test: every record old enough
DueByAge(row, checkpoint, clock) ==
    row.first_detected_at < clock - CHECKPOINTS[checkpoint]

\* Due giving up on a record that is more than five minutes overdue
DueInTime(row, checkpoint, clock) ==
    /\ row.samples[checkpoint].mc = NULL
    /\ row.first_detected_at < clock - CHECKPOINTS[checkpoint]
    /\ row.first_detected_at >= clock - CHECKPOINTS[checkpoint] - 300

\* the WHERE clause of get_tokens_for_checkpoint, cutoff = clock - delay
Due(row, checkpoint, clock) ==
    /\ row.samples[checkpoint].mc = NULL
    /\ row.first_detected_at < clock - CHECKPOINTS[checkpoint]

\* get_tokens_for_checkpoint: the exception raised, or the rows selected
get_tokens_for_checkpoint(table, checkpoint, clock) ==
    IF checkpoint \notin CheckpointNames
    THEN [raised |-> "ValueError", rows |-> {}]
    ELSE [raised |-> "none",
          rows   |-> {row \in table : Due(row, checkpoint, clock)}]

-----------------------------------------------------------------------------
(* database.py: the outcome recorder *)

\* BestAth forgetting what is stored: the best of this snapshot alone
BestAthOfSnapshot(row, current_mc, current_ath) ==
    FMax(Or(current_ath, R(0)), Or(current_mc, R(0)))

\* BestAth starting from nothing instead of the ATH at detection
BestAthOfSamples(row, current_mc, current_ath) ==
    LET prev_ath == Or(row.current_ath_usd, R(0))
    IN  FMax(FMax(prev_ath, Or(current_ath, R(0))), Or(current_mc, R(0)))

\* best ATH seen so far
BestAth(row, current_mc, current_ath) ==
    LET ath_at_call == Or(row.ath_market_cap, R(0))
        prev_ath    == Or(Or(row.current_ath_usd, ath_at_call), R(0))
    IN  FMax(FMax(prev_ath, Or(current_ath, R(0))), Or(current_mc, R(0)))

\* TrueMultiple over the stored baseline alone, whatever the caller passes
TrueMultipleOfBaseline(row, best_ath, mc_at_call) ==
    LET initial_mc    == Or(row.api_mc_usd, R(0))
        prev_multiple == Or(row.true_multiple, R(0))
        true_multiple == IF FGt(initial_mc, R(0))
                         THEN FDiv(best_ath, initial_mc) ELSE R(0)
    IN  FMax(true_multiple, prev_multiple)

\* TrueMultiple that counts only a best ATH this call has raised, and forgets
\* the multiple stored
TrueMultipleOfSnapshot(row, best_ath, mc_at_call) ==
    LET initial_mc == Or(Or(row.api_mc_usd, mc_at_call), R(0))
    IN  IF FGt(initial_mc, R(0)) /\ row.current_ath_usd # best_ath
        THEN FDiv(best_ath, initial_mc) ELSE R(0)

\* TrueMultiple without "keep the highest multiple seen"
TrueMultipleOfBest(row, best_ath, mc_at_call) ==
    LET initial_mc == Or(Or(row.api_mc_usd, mc_at_call), R(0))
    IN  IF FGt(initial_mc, R(0)) THEN FDiv(best_ath, initial_mc) ELSE R(0)

\* TrueMultiple that prefers the market cap the caller passes to the stored
\* baseline
TrueMultipleOverCall(row, best_ath, mc_at_call) ==
    LET initial_mc    == Or(Or(mc_at_call, row.api_mc_usd), R(0))
        prev_multiple == Or(row.true_multiple, R(0))
        true_multiple == IF FGt(initial_mc, R(0))
                         THEN FDiv(best_ath, initial_mc) ELSE R(0)
    IN  FMax(true_multiple, prev_multiple)

\* true multiple: best ATH against the initial market cap, never below the
\* multiple already stored
TrueMultiple(row, best_ath, mc_at_call) ==
    LET initial_mc    == Or(Or(row.api_mc_usd, mc_at_call), R(0))
        prev_multiple == Or(row.true_multiple, R(0))
        true_multiple == IF FGt(initial_mc, R(0))
                         THEN FDiv(best_ath, initial_mc) ELSE R(0)
    IN  FMax(true_multiple, prev_multiple)

\* Reached with the thresholds compared strictly
ReachedAbove(row, true_multiple) ==
    [n \in Thresholds |->
        IF Truthy(row.reached[n]) \/ FGt(true_multiple, R(n)) THEN R(1) ELSE R(0)]

\* reached_xN: once reached, stays reached
Reached(row, true_multiple) ==
    [n \in Thresholds |->
        IF Truthy(row.reached[n]) \/ FGe(true_multiple, R(n)) THEN R(1) ELSE R(0)]

\* SampleOf leaving the market cap of a token that is gone unset
SampleOfLive(snap) ==
    [mc        |-> IF Truthy(snap.current_mc) THEN snap.current_mc ELSE NULL,
     ath       |-> snap.current_ath,
     holders   |-> snap.holders,
     liquidity |-> snap.liquidity_usd,
     price     |-> snap.price_usd,
     buys      |-> snap.txns_buys,
     sells     |-> snap.txns_sells]

\* the sample columns the UPDATE statement sets
SampleOf(snap) ==
    [mc        |-> snap.current_mc,
     ath       |-> snap.current_ath,
     holders   |-> snap.holders,
     liquidity |-> snap.liquidity_usd,
     price     |-> snap.price_usd,
     buys      |-> snap.txns_buys,
     sells     |-> snap.txns_sells]

\* UpdatedRow with the flags taken from this snapshot's own multiple
UpdatedRowFlagsOfSnapshot(row, checkpoint, snap, best_ath, true_multiple, reached) ==
    LET seen == FMax(Or(snap.current_ath, R(0)), Or(snap.current_mc, R(0)))
        base == Or(row.api_mc_usd, R(0))
    IN  [row EXCEPT
            !.samples[checkpoint] = SampleOf(snap),
            !.current_ath_usd = best_ath,
            !.true_multiple   = true_multiple,
            !.reached         =
                [n \in Thresholds |->
                    IF FGt(base, R(0)) /\ FGe(seen, FMul(R(n), base))
                    THEN R(1) ELSE R(0)]]

\* UpdatedRow that classifies the record again, against the best ATH
UpdatedRowReclassified(row, checkpoint, snap, best_ath, true_multiple, reached) ==
    LET cls == Classify([api_mc_usd |-> row.api_mc_usd,
                         ath_market_cap |-> best_ath,
                         ath_ratio |-> row.ath_ratio])
    IN  [row EXCEPT
            !.samples[checkpoint] = SampleOf(snap),
            !.current_ath_usd = best_ath,
            !.true_multiple   = true_multiple,
            !.reached         = reached,
            !.ath_ratio       = cls[1],
            !.excluded_from_analysis = cls[2]]

\* UpdatedRow storing the best ATH as the ATH of the sample
UpdatedRowBestSample(row, checkpoint, snap, best_ath, true_multiple, reached) ==
    [row EXCEPT
        !.samples[checkpoint] = [SampleOf(snap) EXCEPT !.ath = best_ath],
        !.current_ath_usd = best_ath,
        !.true_multiple   = true_multiple,
        !.reached         = reached]

\* the UPDATE statement applied to one row
UpdatedRow(row, checkpoint, snap, best_ath, true_multiple, reached) ==
    [row EXCEPT
        !.samples[checkpoint] = SampleOf(snap),
        !.current_ath_usd = best_ath,
        !.true_multiple   = true_multiple,
        !.reached         = reached]

\* what a call that raised returned: nothing
NoResult == [error |-> "raised"]

\* update_token_checkpoint creating the record it does not find
update_token_checkpoint_creating(table, contract_address, checkpoint, snap, mc_at_call) ==
    IF checkpoint \notin CheckpointNames
    THEN [raised |-> "ValueError", table |-> table, result |-> NoResult]
    ELSE IF ~token_exists(table, contract_address)
    THEN [raised |-> "none",
          table  |-> table \cup
                       {NewRow([contract_address |-> contract_address,
                                wallet_name |-> NULL, first_detected_at |-> 0,
                                api_mc_usd |-> mc_at_call,
                                ath_market_cap |-> NULL, ath_ratio |-> NULL],
                               1)},
          result |-> [error |-> "Token not found"]]
    ELSE LET row == CHOOSE r \in table : r.contract_address = contract_address
             best_ath      == BestAth(row, snap.current_mc, snap.current_ath)
             true_multiple == TrueMultiple(row, best_ath, mc_at_call)
             reached       == Reached(row, true_multiple)
         IN  [raised |-> "none",
              table  |-> {IF r.contract_address = contract_address
                          THEN UpdatedRow(r, checkpoint, snap, best_ath,
                                          true_multiple, reached)
                          ELSE r : r \in table},
              result |-> [error         |-> "none",
                          current_mc    |-> snap.current_mc,
                          current_ath   |-> snap.current_ath,
                          best_ath      |-> best_ath,
                          true_multiple |-> true_multiple,
                          reached       |-> reached]]

\* update_token_checkpoint looking the record up before it checks the name
update_token_checkpoint_lookup_first(table, contract_address, checkpoint, snap, mc_at_call) ==
    IF ~token_exists(table, contract_address)
    THEN [raised |-> "none", table |-> table,
          result |-> [error |-> "Token not found"]]
    ELSE [raised |-> "ValueError", table |-> table, result |-> NoResult]

\* update_token_checkpoint refusing a checkpoint while an earlier one of the
\* record is unset
update_token_checkpoint_in_order(table, contract_address, checkpoint, snap, mc_at_call) ==
    IF checkpoint \notin CheckpointNames
    THEN [raised |-> "ValueError", table |-> table, result |-> NoResult]
    ELSE IF \/ ~token_exists(table, contract_address)
            \/ \E row \in table, i \in DOMAIN CheckpointOrder :
                  /\ row.contract_address = contract_address
                  /\ CheckpointOrder[i] = checkpoint
                  /\ \E j \in 1..(i - 1) :
                        row.samples[CheckpointOrder[j]].mc = NULL
    THEN [raised |-> "none", table |-> table,
          result |-> [error |-> "Token not found"]]
    ELSE LET row == CHOOSE r \in table : r.contract_address = contract_address
             best_ath      == BestAth(row, snap.current_mc, snap.current_ath)
             true_multiple == TrueMultiple(row, best_ath, mc_at_call)
             reached       == Reached(row, true_multiple)
         IN  [raised |-> "none",
              table  |-> {IF r.contract_address = contract_address
                          THEN UpdatedRow(r, checkpoint, snap, best_ath,
                                          true_multiple, reached)
                          ELSE r : r \in table},
              result |-> [error         |-> "none",
                          current_mc    |-> snap.current_mc,
                          current_ath   |-> snap.current_ath,
                          best_ath      |-> best_ath,
                          true_multiple |-> true_multiple,
                          reached       |-> reached]]

\* update_token_checkpoint whose UPDATE has no WHERE clause
update_token_checkpoint_every_row(table, contract_address, checkpoint, snap, mc_at_call) ==
    IF checkpoint \notin CheckpointNames
    THEN [raised |-> "ValueError", table |-> table, result |-> NoResult]
    ELSE IF ~token_exists(table, contract_address)
    THEN [raised |-> "none", table |-> table,
          result |-> [error |-> "Token not found"]]
    ELSE LET row == CHOOSE r \in table : r.contract_address = contract_address
             best_ath      == BestAth(row, snap.current_mc, snap.current_ath)
             true_multiple == TrueMultiple(row, best_ath, mc_at_call)
             reached       == Reached(row, true_multiple)
         IN  [raised |-> "none",
              table  |-> {UpdatedRow(r, checkpoint, snap, best_ath,
                                     true_multiple, reached) : r \in table},
              result |-> [error         |-> "none",
                          current_mc    |-> snap.current_mc,
                          current_ath   |-> snap.current_ath,
                          best_ath      |-> best_ath,
                          true_multiple |-> true_multiple,
                          reached       |-> reached]]

\* update_token_checkpoint: the exception raised, the table afterwards and the
\* dict returned.  snap holds the arguments current_mc, current_ath, holders,
\* liquidity_usd, price_usd, txns_buys, txns_sells.
update_token_checkpoint(table, contract_address, checkpoint, snap, mc_at_call) ==
    IF checkpoint \notin CheckpointNames
    THEN [raised |-> "ValueError", table |-> table, result |-> NoResult]
    ELSE IF ~token_exists(table, contract_address)
    THEN [raised |-> "none", table |-> table,
          result |-> [error |-> "Token not found"]]
    ELSE LET row == CHOOSE r \in table : r.contract_address = contract_address
             best_ath      == BestAth(row, snap.current_mc, snap.current_ath)
             true_multiple == TrueMultiple(row, best_ath, mc_at_call)
             reached       == Reached(row, true_multiple)
         IN  [raised |-> "none",
              table  |-> {IF r.contract_address = contract_address
                          THEN UpdatedRow(r, checkpoint, snap, best_ath,
                                          true_multiple, reached)
                          ELSE r : r \in table},
              result |-> [error         |-> "none",
                          current_mc    |-> snap.current_mc,
                          current_ath   |-> snap.current_ath,
                          best_ath      |-> best_ath,
                          true_multiple |-> true_multiple,
                          reached       |-> reached]]

-----------------------------------------------------------------------------
(* database.py: the statistics *)

\* SUM(CASE WHEN P THEN 1 ELSE 0 END) over the table, matching being the rows
\* P holds of: NULL over no rows
SumCase(table, matching) ==
    IF table = {} THEN NULL ELSE R(Cardinality(matching))

\* mc_7d IS NOT NULL
Terminal(row) == row.samples["7d"].mc # NULL

\* get_global_stats: the one row the query returns, as a dict
get_global_stats(table) ==
    [total_tokens    |-> R(Cardinality(table)),
     checked_tokens  |-> SumCase(table, {row \in table : Terminal(row)}),
     excluded_tokens |-> SumCase(table, {row \in table :
                            row.excluded_from_analysis = 1 /\ Terminal(row)}),
     total_x2        |-> SumCase(table, {row \in table :
                            row.reached[2] = R(1) /\ row.excluded_from_analysis = 0}),
     total_x5        |-> SumCase(table, {row \in table :
                            row.reached[5] = R(1) /\ row.excluded_from_analysis = 0}),
     total_x10       |-> SumCase(table, {row \in table :
                            row.reached[10] = R(1) /\ row.excluded_from_analysis = 0}),
     included_tokens |-> SumCase(table, {row \in table :
                            Terminal(row) /\ row.excluded_from_analysis = 0})]

\* the orders fetchall may return a set of rows in
Orders(rows) ==
    {seq \in [1..Cardinality(rows) -> rows] :
        \A i, j \in 1..Cardinality(rows) : seq[i] = seq[j] => i = j}

\* WHERE mc_7d IS NOT NULL AND excluded_from_analysis = 0: the records the
\* breakdowns and the wallet summary are taken over
Included(row) == Terminal(row) /\ row.excluded_from_analysis = 0

\* GROUP BY wallet_name over the included records: the names, and the group of
\* one name
WalletNames(table) == {row.wallet_name : row \in {q \in table : Included(q)}}

WalletGroup(table, w) == {row \in table : Included(row) /\ row.wallet_name = w}

\* COUNT(*) and SUM(CASE WHEN reached_xN = 1 THEN 1 ELSE 0 END) of a group
CountOf(group) == R(Cardinality(group))

HitsOf(group, n) == R(Cardinality({row \in group : row.reached[n] = R(1)}))

\* the row get_wallet_stats_detailed builds for one wallet (dominant_platform
\* is not modelled: the rows of the model carry no platform)
WalletDetail(table, w) ==
    LET group == WalletGroup(table, w)
    IN  [wallet_name |-> w,
         total       |-> CountOf(group),
         x2_count    |-> HitsOf(group, 2),
         x5_count    |-> HitsOf(group, 5),
         x10_count   |-> HitsOf(group, 10)]

\* x2_count * 100.0 / total
RateOf(detail) == FDiv(FMul(detail.x2_count, R(100)), detail.total)

\* get_wallet_stats_detailed listing every wallet that has an included record
get_wallet_stats_detailed_all(table) ==
    LET groups == {WalletDetail(table, w) : w \in WalletNames(table)}
    IN  {list \in Orders(groups) :
            \A i, j \in DOMAIN list :
                i < j => FGe(RateOf(list[i]), RateOf(list[j]))}

\* get_wallet_stats_detailed: the lists the query may return (wallets of equal
\* rate come in either order).  Every wallet_name of the model is a string, so
\* wallet_name IS NOT NULL holds of every row.
get_wallet_stats_detailed(table) ==
    LET groups == {WalletDetail(table, w) : w \in WalletNames(table)}
        having == {g \in groups : FGe(g.total, R(3))}
    IN  {list \in Orders(having) :
            \A i, j \in DOMAIN list :
                i < j => FGe(RateOf(list[i]), RateOf(list[j]))}

\* the row update_wallet_stats writes for one wallet at clock (wallet_address
\* is not modelled)
WalletSummary(table, w, clock) ==
    LET group         == WalletGroup(table, w)
        total_signals == CountOf(group)
        total_x2      == HitsOf(group, 2)
    IN  [wallet_name   |-> w,
         total_signals |-> total_signals,
         total_x2      |-> total_x2,
         winrate       |-> IF FGt(total_signals, R(0))
                           THEN FMul(FDiv(total_x2, total_signals), R(100))
                           ELSE R(0),
         last_updated  |-> clock]

\* InsertOrReplace adding the new counts to the ones stored
InsertOrAdd(stats, rows) ==
    {s \in stats : \A r \in rows : r.wallet_name # s.wallet_name}
    \cup {IF \E s \in stats : s.wallet_name = r.wallet_name
          THEN LET s == CHOOSE q \in stats : q.wallet_name = r.wallet_name
                   total == <<s.total_signals[1] + r.total_signals[1], 1>>
                   hits  == <<s.total_x2[1] + r.total_x2[1], 1>>
               IN  [r EXCEPT !.total_signals = total, !.total_x2 = hits,
                             !.winrate = FMul(FDiv(hits, total), R(100))]
          ELSE r : r \in rows}

\* INSERT OR REPLACE on the primary key wallet_name
InsertOrReplace(stats, rows) ==
    {s \in stats : \A r \in rows : r.wallet_name # s.wallet_name} \cup rows

\* update_wallet_stats: table wallet_stats afterwards
update_wallet_stats(table, stats, clock) ==
    InsertOrReplace(stats,
                    {WalletSummary(table, w, clock) : w \in WalletNames(table)})

\* the first n elements of a list: list[:n]
FirstN(list, n) == SubSeq(list, 1, IF Len(list) < n THEN Len(list) ELSE n)

\* print_report, up to the wallet breakdown: the exception raised or what is
\* printed, wallets being the list get_wallet_stats_detailed returned.  On a
\* table without rows every SUM is None and `included > 0` raises.
print_report(table, wallets) ==
    LET stats == get_global_stats(table)
    IN  IF stats.included_tokens = NULL
        THEN [raised |-> "TypeError", printed |-> NoResult]
        ELSE [raised  |-> "none",
              printed |->
                [error    |-> "none",
                 checked  |-> stats.checked_tokens,
                 total    |-> stats.total_tokens,
                 excluded |-> stats.excluded_tokens,
                 included |-> stats.included_tokens,
                 winrates |->
                    IF FGt(stats.included_tokens, R(0))
                    THEN [n \in {2, 5, 10} |->
                            FMul(FDiv(CASE n = 2 -> stats.total_x2
                                        [] n = 5 -> stats.total_x5
                                        [] n = 10 -> stats.total_x10,
                                      stats.included_tokens), R(100))]
                    ELSE NULL,
                 wallets  |->
                    [k \in DOMAIN FirstN(wallets, 15) |->
                        [wallet_name |-> wallets[k].wallet_name,
                         winrate |-> IF FGt(wallets[k].total, R(0))
                                     THEN FMul(FDiv(wallets[k].x2_count,
                                                    wallets[k].total), R(100))
                                     ELSE R(0),
                         total |-> wallets[k].total]]]]

-----------------------------------------------------------------------------
(* check_outcomes.py: fetching a snapshot and checking one token *)

\* the pools of a /tokens response with a positive market cap
ActivePools(pools) ==
    {i \in 1..Len(pools) : FGt(Or(pools[i].marketCap, R(0)), R(0))}

\* the first of them after the sort by market cap, largest first
BestPool(pools) ==
    LET active == ActivePools(pools)
    IN  pools[CHOOSE i \in active :
                \A j \in active :
                    \/ FGt(pools[i].marketCap, pools[j].marketCap)
                    \/ pools[i].marketCap = pools[j].marketCap /\ i <= j]

\* fetch_token_data leaving what it could not fetch unknown instead of 0
fetch_token_data_unknown(token_data, ath_data) ==
    LET live == token_data # NULL /\ ActivePools(token_data.pools) # {}
        best == BestPool(token_data.pools)
    IN  [current_mc    |-> IF live THEN best.marketCap ELSE NULL,
         current_ath   |-> IF ath_data # NULL
                           THEN ath_data.highest_market_cap ELSE NULL,
         holders       |-> IF token_data # NULL THEN token_data.holders ELSE NULL,
         liquidity_usd |-> IF live THEN best.liquidity ELSE NULL,
         price_usd     |-> IF live THEN best.price ELSE NULL,
         txns_buys     |-> IF live THEN best.buys ELSE NULL,
         txns_sells    |-> IF live THEN best.sells ELSE NULL]

\* fetch_token_data, from what the two provider calls returned (NULL: the
\* call failed, timed out or did not answer 200)
fetch_token_data(token_data, ath_data) ==
    LET live == token_data # NULL /\ ActivePools(token_data.pools) # {}
        best == BestPool(token_data.pools)
    IN  [current_mc    |-> IF live THEN best.marketCap ELSE R(0),
         current_ath   |-> IF ath_data # NULL
                           THEN Or(ath_data.highest_market_cap, R(0)) ELSE R(0),
         holders       |-> IF token_data # NULL THEN token_data.holders ELSE NULL,
         liquidity_usd |-> IF live THEN best.liquidity ELSE NULL,
         price_usd     |-> IF live THEN best.price ELSE NULL,
         txns_buys     |-> IF live THEN best.buys ELSE NULL,
         txns_sells    |-> IF live THEN best.sells ELSE NULL]

\* the columns get_tokens_for_checkpoint selects, as check_token reads them
TokenOf(row) ==
    [contract_address |-> row.contract_address, api_mc_usd |-> row.api_mc_usd]

\* check_token giving up on a token it could fetch no market cap for
check_token_live_only(table, token, checkpoint, token_data, ath_data) ==
    LET mc_at_call == Or(token.api_mc_usd, R(0))
        data == fetch_token_data(token_data, ath_data)
        res  == update_token_checkpoint(table, token.contract_address,
                                        checkpoint, data, mc_at_call)
    IN  IF ~Truthy(mc_at_call) \/ FLe(mc_at_call, R(0))
        THEN [raised |-> "none", table |-> table, fetched |-> FALSE,
              result |-> NULL]
        ELSE IF data.current_mc = R(0)
        THEN [raised |-> "none", table |-> table, fetched |-> TRUE,
              result |-> [error |-> "Fetch failed", current_mc |-> R(0),
                          current_ath |-> data.current_ath]]
        ELSE [raised |-> res.raised, table |-> res.table, fetched |-> TRUE,
              result |-> res.result]

\* check_token without the test of the initial market cap
check_token_unguarded(table, token, checkpoint, token_data, ath_data) ==
    LET mc_at_call == Or(token.api_mc_usd, R(0))
        data == fetch_token_data(token_data, ath_data)
        res  == update_token_checkpoint(table, token.contract_address,
                                        checkpoint, data, mc_at_call)
    IN  [raised |-> res.raised, table |-> res.table, fetched |-> TRUE,
         result |-> res.result]

\* check_token: skipped without a fetch when the token has no initial market
\* cap, else the recorder called with what was fetched
check_token(table, token, checkpoint, token_data, ath_data) ==
    LET mc_at_call == Or(token.api_mc_usd, R(0))
    IN  IF ~Truthy(mc_at_call) \/ FLe(mc_at_call, R(0))
        THEN [raised |-> "none", table |-> table, fetched |-> FALSE,
              result |-> NULL]
        ELSE LET data == fetch_token_data(token_data, ath_data)
                 res  == update_token_checkpoint(table, token.contract_address,
                                                 checkpoint, data, mc_at_call)
             IN  [raised |-> res.raised, table |-> res.table, fetched |-> TRUE,
                  result |-> res.result]

-----------------------------------------------------------------------------
(* Inputs *)

\* contract addresses and wallets of the signals
Addrs == {"A", "B"}
Wallets == {"w1", "w2"}

\* checkpoint names a caller may pass: the seven defined ones and another
AnyCheckpoint == CheckpointNames \cup {"2h"}

\* checkpoint names the direct recorder calls pass (the check pass below
\* passes all seven)
DirectCheckpoints == {"5min", "7d", "2h"}

\* market cap and ATH at detection, as the provider gave them (thousands)
BaselineMc == {NULL, R(10)}
BaselineAth == {NULL, R(-5), R(0), R(9), R(20), R(30)}

\* the baselines of the records the direct recorder calls are made on
DirectBaselines == {<<NULL, NULL>>, <<R(10), R(9)>>, <<R(10), R(30)>>}

\* the instants the clock is read at
Instants == {1, 301, 302}

\* the initial market cap a recorder caller passes
McAtCall == {NULL, Frac(1, 2)}

\* holders, liquidity, price, buys, sells of a snapshot: unknown, or known
NoRest ==
    [holders |-> NULL, liquidity_usd |-> NULL, price_usd |-> NULL,
     txns_buys |-> NULL, txns_sells |-> NULL]

SomeRest ==
    [holders |-> R(7), liquidity_usd |-> R(3), price_usd |-> Frac(1, 4),
     txns_buys |-> R(5), txns_sells |-> R(2)]

Snapshot(mc, ath, rest) ==
    [current_mc |-> mc, current_ath |-> ath, holders |-> rest.holders,
     liquidity_usd |-> rest.liquidity_usd, price_usd |-> rest.price_usd,
     txns_buys |-> rest.txns_buys, txns_sells |-> rest.txns_sells]

\* the snapshots a recorder caller passes: nothing known (the defaults),
\* all zero (delisted), and a market cap with an ATH
Snapshots ==
    {Snapshot(NULL, NULL, NoRest), Snapshot(R(0), R(0), NoRest)}
    \cup {Snapshot(mc, ath, SomeRest) :
            mc \in {R(12), R(50)}, ath \in {R(15), R(20), R(40)}}

\* direct recorder calls in one behaviour
MaxCalls == 3

\* the baselines and snapshots of the recorder calls made side by side
OverlapBaselines == {<<R(10), R(9)>>, <<NULL, NULL>>}

OverlapSnapshots ==
    {Snapshot(R(0), R(0), NoRest), Snapshot(R(12), R(15), SomeRest),
     Snapshot(R(12), R(40), SomeRest)}

\* the signals the statistics are taken over, in the order they are detected:
\* position, address, wallet, market cap and ATH at detection.  Three signals
\* of each of two wallets; the third of each wallet is included or excluded.
StatsSignals ==
    {<<1, "A", "w1", R(10), R(9)>>, <<2, "B", "w1", R(10), R(9)>>,
     <<3, "C", "w1", R(10), R(9)>>, <<3, "C", "w1", R(10), R(30)>>,
     <<4, "D", "w2", R(10), R(9)>>, <<5, "E", "w2", R(10), R(9)>>,
     <<6, "F", "w2", R(10), R(9)>>, <<6, "F", "w2", R(10), R(30)>>}

\* the outcomes recorded on them: position, address, checkpoint and snapshot.
\* Every record may end at 7 days with a hit (ATH 20 on baseline 10) or with
\* nothing left, the records reaching 7 days in the order of their detection;
\* C may have had its hit at 24 hours (position 0: at any moment).
StatsCalls ==
    {<<sig[1], sig[2], "7d", snap>> :
        sig \in StatsSignals,
        snap \in {Snapshot(R(12), R(20), SomeRest), Snapshot(R(0), R(0), NoRest)}}
    \cup {<<0, "C", "24h", Snapshot(R(12), R(20), SomeRest)>>}

\* what the two provider calls of a check return: a /tokens response and an
\* /ath response, or NULL for a call that failed
LiveToken ==
    [holders |-> R(7),
     pools   |-> <<[marketCap |-> R(0), liquidity |-> R(1), price |-> R(1),
                    buys |-> R(1), sells |-> R(1)],
                   [marketCap |-> R(12), liquidity |-> R(3), price |-> Frac(1, 4),
                    buys |-> R(5), sells |-> R(2)]>>]

ProviderReplies ==
    {<<NULL, NULL>>, <<LiveToken, [highest_market_cap |-> R(20)]>>}

\* what the two provider calls of a check may return, one by one
TokenReplies == {NULL, LiveToken}
AthReplies == {NULL, [highest_market_cap |-> R(20)]}

\* the signals the check passes run over: address, market cap and ATH at
\* detection, and the instant of detection
PassSignals ==
    {<<"A", R(10), R(9), 1>>, <<"B", R(10), R(9), 302>>, <<"B", NULL, NULL, 1>>,
     <<"B", R(0), R(9), 1>>}

\* the instants the clock is read at while passes run
PassInstants == {1, 302, 604802}

\* the signals the runs without end go over, and the instants the clock is
\* read at: the last is more than 7 days after every detection
LiveSignals ==
    {<<"A", R(10), R(9), 1>>, <<"B", R(10), R(9), 302>>, <<"B", NULL, NULL, 1>>}

LiveInstants == {1, 302, 605103}

\* what the provider calls return in those runs: anything for A, nothing for
\* B, which is gone
LiveReplies(a) == IF a = "B" THEN {<<NULL, NULL>>} ELSE ProviderReplies

\* the checkpoint names a run of one checkpoint is asked for
OneCheckpoints == {"24h", "2h"}

\* runs of check_outcomes.py in one behaviour
MaxRuns == 2

\* checks in one behaviour with a provider call that failed
MaxFailures == 1

-----------------------------------------------------------------------------
(* The operations, called one after another *)

\* the processes that may call the recorder at the same time, and a process
\* that is not inside a recorder call
Recorders == {1, 2}
Idle == [pc |-> "idle"]

\* no run of check_outcomes.py in progress
NoPass ==
    [pc |-> "idle", todo |-> <<>>, tokens |-> <<>>, i |-> 0, processed |-> 0]

\* no provider call in flight
NoFetch == [pc |-> "idle"]

\* the two handlers of the listener, one per source channel; a handler with
\* no message in progress; the counters when the listener starts
Handlers == {1, 2}
NoMessage == [pc |-> "idle"]

NoStats ==
    [messages_received |-> 0, signals_parsed |-> 0, snapshots_collected |-> 0,
     duplicates_skipped |-> 0, errors |-> 0]

Returned(op, raised, value) == [op |-> op, raised |-> raised, value |-> value]

Init ==
    /\ token_snapshots = {}
    /\ now = 1
    /\ used = [calls |-> 0, runs |-> 0, failures |-> 0]
    /\ ret = Returned("none", "none", NoResult)
    /\ pass = NoPass
    /\ inflight = [p \in Recorders |-> Idle]
    /\ wallet_stats = {}
    /\ fetch = NoFetch
    /\ listener_stats = NoStats
    /\ handling = [h \in Handlers |-> NoMessage]

\* time passes
Tick(t) ==
    /\ t > now
    /\ now' = t
    /\ ret' = Returned("none", "none", NoResult)
    /\ UNCHANGED <<token_snapshots, used, pass, inflight, wallet_stats, fetch,
                 listener_stats, handling>>

\* the data collect_snapshot builds for a signal detected at clock
Signal(a, w, mc, ath, clock) ==
    [contract_address |-> a, wallet_name |-> w, first_detected_at |-> clock,
     api_mc_usd |-> mc, ath_market_cap |-> ath, ath_ratio |-> NULL]

\* insert_snapshot(data)
InsertSnapshot(a, w, mc, ath) ==
    LET data == Signal(a, w, mc, ath, now)
        res  == insert_snapshot(token_snapshots, data, now)
    IN  /\ token_snapshots' = res.table
        /\ ret' = Returned("insert_snapshot", "none",
                           [error |-> "none", inserted |-> res.inserted])
        /\ UNCHANGED <<now, used, pass, inflight, wallet_stats, fetch, listener_stats, handling>>

\* get_tokens_for_checkpoint(checkpoint)
GetTokensForCheckpoint(checkpoint) ==
    LET res == get_tokens_for_checkpoint(token_snapshots, checkpoint, now)
    IN  /\ ret' = Returned("get_tokens_for_checkpoint", res.raised,
                           [error |-> "none", rows |-> res.rows])
        /\ UNCHANGED <<token_snapshots, now, used, pass, inflight, wallet_stats, fetch,
                 listener_stats, handling>>

\* update_token_checkpoint(contract_address, checkpoint, ...)
UpdateTokenCheckpoint(a, checkpoint, snap, mc_at_call) ==
    LET res == update_token_checkpoint(token_snapshots, a, checkpoint, snap,
                                       mc_at_call)
    IN  /\ used.calls < MaxCalls
        /\ used' = [used EXCEPT !.calls = used.calls + 1]
        /\ token_snapshots' = res.table
        /\ ret' = Returned("update_token_checkpoint", res.raised, res.result)
        /\ UNCHANGED <<now, pass, inflight, wallet_stats, fetch, listener_stats, handling>>

Next ==
    \/ \E t \in Instants : Tick(t)
    \/ \E b \in DirectBaselines : InsertSnapshot("A", "w1", b[1], b[2])
    \/ \E c \in AnyCheckpoint : GetTokensForCheckpoint(c)
    \/ \E c \in DirectCheckpoints, snap \in Snapshots, mc_at_call \in McAtCall :
          UpdateTokenCheckpoint("A", c, snap, mc_at_call)

Spec == Init /\ [][Next]_vars

\* update_token_checkpoint in process p, up to and including its SELECT: the
\* connection is in autocommit, so the row is read outside any transaction
BeginUpdate(p, a, checkpoint, snap, mc_at_call) ==
    /\ inflight[p].pc # "read"
    /\ used.calls < MaxCalls
    /\ used' = [used EXCEPT !.calls = used.calls + 1]
    /\ IF checkpoint \notin CheckpointNames
       THEN /\ ret' = Returned("update_token_checkpoint", "ValueError", NoResult)
            /\ inflight' = [inflight EXCEPT ![p] = Idle]
       ELSE IF ~token_exists(token_snapshots, a)
       THEN /\ ret' = Returned("update_token_checkpoint", "none",
                               [error |-> "Token not found"])
            /\ inflight' = [inflight EXCEPT ![p] = Idle]
       ELSE /\ ret' = Returned("none", "none", NoResult)
            /\ inflight' = [inflight EXCEPT ![p] =
                   [pc |-> "read", contract_address |-> a,
                    checkpoint |-> checkpoint, snap |-> snap,
                    mc_at_call |-> mc_at_call,
                    row |-> CHOOSE r \in token_snapshots : r.contract_address = a]]
    /\ UNCHANGED <<token_snapshots, now, pass, wallet_stats, fetch, listener_stats, handling>>

\* update_token_checkpoint in process p, from the computation to the commit:
\* the values computed from the row read are written over the stored row
FinishUpdate(p) ==
    /\ inflight[p].pc = "read"
    /\ LET call == inflight[p]
           best_ath      == BestAth(call.row, call.snap.current_mc,
                                    call.snap.current_ath)
           true_multiple == TrueMultiple(call.row, best_ath, call.mc_at_call)
           reached       == Reached(call.row, true_multiple)
       IN  /\ token_snapshots' =
                  {IF r.contract_address = call.contract_address
                   THEN UpdatedRow(r, call.checkpoint, call.snap, best_ath,
                                   true_multiple, reached)
                   ELSE r : r \in token_snapshots}
           /\ ret' = Returned("update_token_checkpoint", "none",
                              [error         |-> "none",
                               current_mc    |-> call.snap.current_mc,
                               current_ath   |-> call.snap.current_ath,
                               best_ath      |-> best_ath,
                               true_multiple |-> true_multiple,
                               reached       |-> reached])
    /\ inflight' = [inflight EXCEPT ![p].pc = "done"]
    /\ UNCHANGED <<now, used, pass, wallet_stats, fetch, listener_stats, handling>>

\* update_token_checkpoint as a check of checkpoint c calls it on a record
\* that get_tokens_for_checkpoint(c) has returned: c is unset on the record
\* and mc_at_call is its baseline market cap
RecordOutcome(a, checkpoint, snap) ==
    /\ \E row \in token_snapshots :
          /\ row.contract_address = a
          /\ row.samples[checkpoint].mc = NULL
          /\ LET res == update_token_checkpoint(token_snapshots, a, checkpoint,
                                                snap, Or(row.api_mc_usd, R(0)))
             IN  /\ token_snapshots' = res.table
                 /\ ret' = Returned("update_token_checkpoint", res.raised,
                                    res.result)
    /\ UNCHANGED <<now, used, pass, inflight, wallet_stats, fetch, listener_stats, handling>>

\* update_wallet_stats()
UpdateWalletStats ==
    /\ wallet_stats' = update_wallet_stats(token_snapshots, wallet_stats, now)
    /\ ret' = Returned("update_wallet_stats", "none", [error |-> "none"])
    /\ UNCHANGED <<token_snapshots, now, used, pass, inflight, fetch,
                 listener_stats, handling>>

\* get_wallet_stats_detailed()
GetWalletStatsDetailed ==
    /\ \E list \in get_wallet_stats_detailed(token_snapshots) :
          ret' = Returned("get_wallet_stats_detailed", "none",
                          [error |-> "none", list |-> list])
    /\ UNCHANGED <<token_snapshots, now, used, pass, inflight, wallet_stats, fetch,
                 listener_stats, handling>>

\* signals detected one after another, their outcomes recorded, the wallet
\* summary refreshed and the wallet breakdown read at any moment, all within
\* one second
StatsNext ==
    \/ \E sig \in StatsSignals :
          /\ Cardinality(token_snapshots) = sig[1] - 1
          /\ InsertSnapshot(sig[2], sig[3], sig[4], sig[5])
    \/ \E call \in StatsCalls :
          /\ \A sig \in StatsSignals :
                sig[1] < call[1]
                => \E row \in token_snapshots :
                      row.contract_address = sig[2] /\ Terminal(row)
          /\ RecordOutcome(call[2], call[3], call[4])
    \/ UpdateWalletStats
    \/ GetWalletStatsDetailed

StatsSpec == Init /\ [][StatsNext]_vars

\* recorder calls made by processes running side by side
OverlapNext ==
    \/ \E b \in OverlapBaselines : InsertSnapshot("A", "w1", b[1], b[2])
    \/ \E p \in Recorders, c \in DirectCheckpoints, snap \in OverlapSnapshots,
          mc_at_call \in McAtCall :
          BeginUpdate(p, "A", c, snap, mc_at_call)
    \/ \E p \in Recorders : FinishUpdate(p)

OverlapSpec == Init /\ [][OverlapNext]_vars

\* signals of every baseline detected and stored, nothing else
CreateNext ==
    \/ \E t \in Instants : Tick(t)
    \/ \E a \in Addrs, w \in Wallets, mc \in BaselineMc, ath \in BaselineAth :
          InsertSnapshot(a, w, mc, ath)

CreateSpec == Init /\ [][CreateNext]_vars

\* the checkpoints and the snapshots the outcomes of the records of every
\* baseline are recorded with
OutcomeCheckpoints == {"5min", "7d"}

OutcomeSnapshots ==
    {Snapshot(R(0), R(0), NoRest), Snapshot(R(12), R(15), SomeRest),
     Snapshot(R(12), R(20), SomeRest), Snapshot(R(50), R(40), SomeRest)}

\* signals of every baseline detected and stored, and their outcomes recorded
\* as a check records them: check_token calls the recorder only on a record
\* that has a baseline market cap
OutcomeNext ==
    \/ \E mc \in BaselineMc, ath \in BaselineAth :
          InsertSnapshot("A", "w1", mc, ath)
    \/ \E c \in OutcomeCheckpoints, snap \in OutcomeSnapshots :
          /\ \E row \in token_snapshots :
                Truthy(row.api_mc_usd) /\ FGt(row.api_mc_usd, R(0))
          /\ RecordOutcome("A", c, snap)

OutcomeSpec == Init /\ [][OutcomeNext]_vars

-----------------------------------------------------------------------------
(* main.py: the listener, its two handlers taking turns at every await *)

\* messages received in one behaviour
MaxMessages == 3

\* what parse_signal makes of a message: nothing, or a signal of a wallet for
\* an address
ParsedSignals ==
    {NULL} \cup {[contract_address |-> a, wallet_name |-> w] :
                    a \in Addrs, w \in Wallets}

\* process_message up to its await: the message is counted and parsed; one
\* that is no buy signal ends there, a signal for a stored address is counted
\* as a duplicate, any other goes on to collect_snapshot
ReceiveMessage(h, parsed) ==
    /\ handling[h].pc = "idle"
    /\ listener_stats.messages_received < MaxMessages
    /\ LET received == [listener_stats EXCEPT !.messages_received = @ + 1]
           signal   == [received EXCEPT !.signals_parsed = @ + 1]
       IN  IF parsed = NULL
           THEN /\ listener_stats' = received
                /\ handling' = handling
                /\ ret' = Returned("process_message", "none",
                                   [error |-> "no signal"])
           ELSE IF token_exists(token_snapshots, parsed.contract_address)
           THEN /\ listener_stats' =
                      [signal EXCEPT !.duplicates_skipped = @ + 1]
                /\ handling' = handling
                /\ ret' = Returned("process_message", "none",
                                   [error |-> "duplicate"])
           ELSE /\ listener_stats' = signal
                /\ handling' = [handling EXCEPT
                                   ![h] = [pc |-> "collect", parsed |-> parsed]]
                /\ ret' = Returned("token_exists", "none", [error |-> "none"])
    /\ UNCHANGED <<token_snapshots, now, used, pass, inflight, wallet_stats,
                   fetch>>

\* process_message from the return of collect_snapshot on: the snapshot,
\* merged with the parsed signal, is inserted, and counted when insert_snapshot
\* says it was stored
StoreSnapshot(h, mc, ath) ==
    /\ handling[h].pc = "collect"
    /\ LET data == Signal(handling[h].parsed.contract_address,
                          handling[h].parsed.wallet_name, mc, ath, now)
           res  == insert_snapshot(token_snapshots, data, now)
       IN  /\ token_snapshots' = res.table
           /\ listener_stats' =
                 IF res.inserted
                 THEN [listener_stats EXCEPT !.snapshots_collected = @ + 1]
                 ELSE listener_stats
           /\ ret' = Returned("insert_snapshot", "none",
                              [error |-> "none", inserted |-> res.inserted])
    /\ handling' = [handling EXCEPT ![h] = NoMessage]
    /\ UNCHANGED <<now, used, pass, inflight, wallet_stats, fetch>>

\* collect_snapshot raises: process_message catches it and counts an error
CollectFails(h) ==
    /\ handling[h].pc = "collect"
    /\ listener_stats' = [listener_stats EXCEPT !.errors = @ + 1]
    /\ handling' = [handling EXCEPT ![h] = NoMessage]
    /\ ret' = Returned("process_message", "Exception", NoResult)
    /\ UNCHANGED <<token_snapshots, now, used, pass, inflight, wallet_stats,
                   fetch>>

ListenNext ==
    \/ \E t \in Instants : Tick(t)
    \/ \E h \in Handlers, parsed \in ParsedSignals : ReceiveMessage(h, parsed)
    \/ \E h \in Handlers, b \in DirectBaselines : StoreSnapshot(h, b[1], b[2])
    \/ \E h \in Handlers : CollectFails(h)

ListenSpec == Init /\ [][ListenNext]_vars

-----------------------------------------------------------------------------
(* check_outcomes.py: main and run_checkpoint, one step at a time *)

\* main: --all (and the default) runs every checkpoint in the order of
\* CHECKPOINTS, --checkpoint runs one
RunAll ==
    /\ pass.pc = "idle"
    /\ pass' = [pc |-> "select", todo |-> CheckpointOrder, tokens |-> <<>>,
                i |-> 0, processed |-> 0]
    /\ ret' = Returned("none", "none", NoResult)
    /\ UNCHANGED <<token_snapshots, now, inflight, wallet_stats, fetch,
                 listener_stats, handling>>

\* a run of every checkpoint, counted against MaxRuns
StartAll ==
    /\ used.runs < MaxRuns
    /\ used' = [used EXCEPT !.runs = used.runs + 1]
    /\ RunAll

StartOne(checkpoint) ==
    /\ pass.pc = "idle"
    /\ used.runs < MaxRuns
    /\ used' = [used EXCEPT !.runs = used.runs + 1]
    /\ pass' = [pc |-> "select", todo |-> <<checkpoint>>, tokens |-> <<>>,
                i |-> 0, processed |-> 0]
    /\ ret' = Returned("none", "none", NoResult)
    /\ UNCHANGED <<token_snapshots, now, inflight, wallet_stats, fetch,
                 listener_stats, handling>>

\* run_checkpoint: tokens = get_tokens_for_checkpoint(checkpoint); an
\* exception ends the process
SelectTokens ==
    /\ pass.pc = "select"
    /\ LET res == get_tokens_for_checkpoint(token_snapshots, Head(pass.todo), now)
       IN  /\ ret' = Returned("get_tokens_for_checkpoint", res.raised,
                              [error |-> "none", rows |-> res.rows])
           /\ IF res.raised # "none"
              THEN pass' = NoPass
              ELSE \E order \in Orders(res.rows) :
                      pass' = [pass EXCEPT
                                  !.pc = "loop",
                                  !.tokens = [k \in DOMAIN order |-> TokenOf(order[k])],
                                  !.i = 1]
    /\ UNCHANGED <<token_snapshots, now, used, inflight, wallet_stats, fetch,
                 listener_stats, handling>>

\* CheckNext staying on a token whose fetch of the token data failed
CheckNextRetrying(token_data, ath_data) ==
    /\ pass.pc = "loop"
    /\ pass.i <= Len(pass.tokens)
    /\ LET res == check_token(token_snapshots, pass.tokens[pass.i],
                              Head(pass.todo), token_data, ath_data)
       IN  /\ token_snapshots' = res.table
           /\ ret' = Returned("check_token", res.raised,
                              IF res.fetched THEN res.result
                              ELSE [error |-> "skipped"])
           /\ pass' = [pass EXCEPT
                          !.i = IF res.fetched /\ token_data = NULL
                                THEN pass.i ELSE pass.i + 1,
                          !.processed = IF res.fetched THEN pass.processed + 1
                                        ELSE pass.processed]
    /\ UNCHANGED <<now, inflight, wallet_stats, fetch, listener_stats, handling>>

\* run_checkpoint: the loop body, check_token on the next token
CheckNext(token_data, ath_data) ==
    /\ pass.pc = "loop"
    /\ pass.i <= Len(pass.tokens)
    /\ LET res == check_token(token_snapshots, pass.tokens[pass.i],
                              Head(pass.todo), token_data, ath_data)
       IN  /\ token_snapshots' = res.table
           /\ ret' = Returned("check_token", res.raised,
                              IF res.fetched THEN res.result
                              ELSE [error |-> "skipped"])
           /\ pass' = [pass EXCEPT
                          !.i = pass.i + 1,
                          !.processed = IF res.fetched THEN pass.processed + 1
                                        ELSE pass.processed]
    /\ UNCHANGED <<now, inflight, wallet_stats, fetch, listener_stats, handling>>

\* the loop body, a provider call that failed counted against MaxFailures
CheckToken(token_data, ath_data) ==
    /\ pass.pc = "loop"
    /\ pass.i <= Len(pass.tokens)
    /\ LET res == check_token(token_snapshots, pass.tokens[pass.i],
                              Head(pass.todo), token_data, ath_data)
           failed == IF res.fetched /\ (token_data = NULL \/ ath_data = NULL)
                     THEN 1 ELSE 0
       IN  /\ used.failures + failed <= MaxFailures
           /\ used' = [used EXCEPT !.failures = used.failures + failed]
    /\ CheckNext(token_data, ath_data)

\* run_checkpoint: the loop body when the UPDATE of update_token_checkpoint
\* raises (database locked, disk full): nothing is committed, and neither
\* update_token_checkpoint, check_token, run_checkpoint nor main catches the
\* exception, so the process ends
WriteFails ==
    /\ pass.pc = "loop"
    /\ pass.i <= Len(pass.tokens)
    /\ check_token(token_snapshots, pass.tokens[pass.i], Head(pass.todo),
                   NULL, NULL).fetched
    /\ ret' = Returned("check_token", "OperationalError", NoResult)
    /\ pass' = NoPass
    /\ UNCHANGED <<token_snapshots, now, used, inflight, wallet_stats, fetch,
                 listener_stats, handling>>

\* run_checkpoint returns; main goes on to the next checkpoint or to the
\* wallet statistics and the report
EndCheckpoint ==
    /\ pass.pc = "loop"
    /\ pass.i > Len(pass.tokens)
    /\ pass' = IF Len(pass.todo) > 1
               THEN [pass EXCEPT !.pc = "select", !.todo = Tail(pass.todo),
                                 !.tokens = <<>>, !.i = 0, !.processed = 0]
               ELSE [pass EXCEPT !.pc = "wallets", !.todo = <<>>,
                                 !.tokens = <<>>, !.i = 0, !.processed = 0]
    /\ ret' = Returned("none", "none", NoResult)
    /\ UNCHANGED <<token_snapshots, now, used, inflight, wallet_stats, fetch,
                 listener_stats, handling>>

\* main, after the last checkpoint: update_wallet_stats()
MainUpdateWalletStats ==
    /\ pass.pc = "wallets"
    /\ wallet_stats' = update_wallet_stats(token_snapshots, wallet_stats, now)
    /\ ret' = Returned("update_wallet_stats", "none", [error |-> "none"])
    /\ pass' = [pass EXCEPT !.pc = "report"]
    /\ UNCHANGED <<token_snapshots, now, used, inflight, fetch, listener_stats, handling>>

\* main, last: print_report(); a TypeError ends the process as a fatal error
MainPrintReport ==
    /\ pass.pc = "report"
    /\ \E wallets \in get_wallet_stats_detailed(token_snapshots) :
          LET res == print_report(token_snapshots, wallets)
          IN  ret' = Returned("print_report", res.raised, res.printed)
    /\ pass' = NoPass
    /\ UNCHANGED <<token_snapshots, now, used, inflight, wallet_stats, fetch,
                 listener_stats, handling>>

\* main --report-only: print_report() and return
ReportOnly ==
    /\ pass.pc = "idle"
    /\ \E wallets \in get_wallet_stats_detailed(token_snapshots) :
          LET res == print_report(token_snapshots, wallets)
          IN  ret' = Returned("print_report", res.raised, res.printed)
    /\ UNCHANGED <<token_snapshots, now, used, pass, inflight, wallet_stats, fetch,
                 listener_stats, handling>>

\* the process is stopped between two records
Interrupt ==
    /\ pass.pc = "loop"
    /\ pass' = NoPass
    /\ ret' = Returned("none", "none", NoResult)
    /\ UNCHANGED <<token_snapshots, now, used, inflight, wallet_stats, fetch,
                 listener_stats, handling>>

PassNext ==
    \/ \E t \in PassInstants : Tick(t)
    \/ \E sig \in PassSignals :
          now = sig[4] /\ InsertSnapshot(sig[1], "w1", sig[2], sig[3])
    \/ StartAll
    \/ \E c \in OneCheckpoints : StartOne(c)
    \/ SelectTokens
    \/ \E reply \in ProviderReplies : CheckToken(reply[1], reply[2])
    \/ WriteFails
    \/ EndCheckpoint
    \/ Interrupt
    \/ MainUpdateWalletStats
    \/ MainPrintReport
    \/ ReportOnly

\* check passes over the records, run one after another
PassSpec == Init /\ [][PassNext]_vars

\* a provider call that was issued and has not returned, and one that has
\* returned data (NULL: it failed)
Pending == [done |-> FALSE, data |-> NULL]
Answered(data) == [done |-> TRUE, data |-> data]

\* asyncio.gather returning as soon as one of the two calls has returned
EitherAnswered(calls) == calls.token_data.done \/ calls.ath_data.done

\* asyncio.gather returns when both calls have returned
BothAnswered(calls) == calls.token_data.done /\ calls.ath_data.done

\* check_token up to the gather of fetch_token_data: a token without initial
\* market cap is skipped, for any other both provider calls are issued
BeginCheck ==
    /\ pass.pc = "loop"
    /\ pass.i <= Len(pass.tokens)
    /\ fetch.pc = "idle"
    /\ LET token == pass.tokens[pass.i]
           mc_at_call == Or(token.api_mc_usd, R(0))
       IN  IF ~Truthy(mc_at_call) \/ FLe(mc_at_call, R(0))
           THEN /\ ret' = Returned("check_token", "none", [error |-> "skipped"])
                /\ pass' = [pass EXCEPT !.i = pass.i + 1]
                /\ fetch' = fetch
           ELSE /\ ret' = Returned("none", "none", NoResult)
                /\ pass' = pass
                /\ fetch' = [pc |-> "gather",
                             contract_address |-> token.contract_address,
                             token_data |-> Pending, ath_data |-> Pending]
    /\ UNCHANGED <<token_snapshots, now, used, inflight, wallet_stats,
                 listener_stats, handling>>

\* get_data("/tokens/{contract_address}") returns
TokensAnswers(token_data) ==
    /\ fetch.pc = "gather"
    /\ ~fetch.token_data.done
    /\ used.failures + (IF token_data = NULL THEN 1 ELSE 0) <= MaxFailures
    /\ used' = [used EXCEPT !.failures = used.failures
                                + (IF token_data = NULL THEN 1 ELSE 0)]
    /\ fetch' = [fetch EXCEPT !.token_data = Answered(token_data)]
    /\ ret' = Returned("none", "none", NoResult)
    /\ UNCHANGED <<token_snapshots, now, pass, inflight, wallet_stats,
                 listener_stats, handling>>

\* get_data("/tokens/{contract_address}/ath") returns
AthAnswers(ath_data) ==
    /\ fetch.pc = "gather"
    /\ ~fetch.ath_data.done
    /\ used.failures + (IF ath_data = NULL THEN 1 ELSE 0) <= MaxFailures
    /\ used' = [used EXCEPT !.failures = used.failures
                                + (IF ath_data = NULL THEN 1 ELSE 0)]
    /\ fetch' = [fetch EXCEPT !.ath_data = Answered(ath_data)]
    /\ ret' = Returned("none", "none", NoResult)
    /\ UNCHANGED <<token_snapshots, now, pass, inflight, wallet_stats,
                 listener_stats, handling>>

\* check_token after the gather: the recorder is called with what the two
\* calls returned, and the loop goes on to the next token
RecordFetched ==
    /\ pass.pc = "loop"
    /\ fetch.pc = "gather"
    /\ BothAnswered(fetch)
    /\ LET res == check_token(token_snapshots, pass.tokens[pass.i],
                              Head(pass.todo), fetch.token_data.data,
                              fetch.ath_data.data)
       IN  /\ token_snapshots' = res.table
           /\ ret' = Returned("check_token", res.raised, res.result)
    /\ pass' = [pass EXCEPT !.i = pass.i + 1, !.processed = pass.processed + 1]
    /\ fetch' = NoFetch
    /\ UNCHANGED <<now, used, inflight, wallet_stats, listener_stats, handling>>

\* check passes with every provider call a step of its own
StepNext ==
    \/ \E t \in PassInstants : Tick(t)
    \/ \E sig \in PassSignals :
          now = sig[4] /\ InsertSnapshot(sig[1], "w1", sig[2], sig[3])
    \/ StartAll
    \/ \E c \in OneCheckpoints : StartOne(c)
    \/ SelectTokens
    \/ BeginCheck
    \/ \E token_data \in TokenReplies : TokensAnswers(token_data)
    \/ \E ath_data \in AthReplies : AthAnswers(ath_data)
    \/ RecordFetched
    \/ EndCheckpoint
    \/ MainUpdateWalletStats
    \/ MainPrintReport

StepSpec == Init /\ [][StepNext]_vars

\* runs of every checkpoint, as many as a scheduler starts, on a store that
\* works and with no run stopped: neither runs nor failed provider calls are
\* counted
FullPassCheck ==
    /\ pass.pc = "loop"
    /\ pass.i <= Len(pass.tokens)
    /\ \E reply \in LiveReplies(pass.tokens[pass.i].contract_address) :
          CheckNext(reply[1], reply[2])
    /\ UNCHANGED used

FullPassNext ==
    \/ \E t \in LiveInstants : Tick(t)
    \/ \E sig \in LiveSignals :
          now = sig[4] /\ InsertSnapshot(sig[1], "w1", sig[2], sig[3])
    \/ RunAll /\ UNCHANGED used
    \/ SelectTokens
    \/ FullPassCheck
    \/ EndCheckpoint
    \/ MainUpdateWalletStats
    \/ MainPrintReport

\* the loop of run_checkpoint goes on to its next token: the steps of
\* FullPassCheck and no others, enabled exactly when FullPassCheck is
LoopAdvances ==
    /\ pass.pc = "loop"
    /\ pass.i <= Len(pass.tokens)
    /\ pass' \in {[pass EXCEPT !.i = pass.i + 1, !.processed = n] :
                    n \in {pass.processed, pass.processed + 1}}

\* a run that is due starts, and a run that has started goes on to its end
FullPassSpec ==
    /\ Init
    /\ [][FullPassNext]_vars
    /\ WF_vars(RunAll /\ UNCHANGED used)
    /\ WF_vars(SelectTokens)
    /\ WF_pass(LoopAdvances)
    /\ WF_vars(EndCheckpoint)
    /\ WF_vars(MainUpdateWalletStats)
    /\ WF_vars(MainPrintReport)

\* the signals the full runs go over, and the instants the clock is read at:
\* from the second to the last it is less than six days, from the first to
\* the last more than seven
WholeSignals ==
    {<<"A", R(10), R(9), 1>>, <<"B", R(10), R(9), 100000>>,
     <<"B", NULL, NULL, 1>>}

WholeInstants == {1, 100000, 604802}

\* main without --checkpoint: every checkpoint in the order of CHECKPOINTS;
\* began keeps the clock the run began at
TimedRunAll ==
    /\ pass.pc = "idle"
    /\ used.runs < MaxRuns
    /\ used' = [used EXCEPT !.runs = used.runs + 1]
    /\ pass' = [pc |-> "select", todo |-> CheckpointOrder, tokens |-> <<>>,
                i |-> 0, processed |-> 0, began |-> now]
    /\ ret' = Returned("none", "none", NoResult)
    /\ UNCHANGED <<token_snapshots, now, inflight, wallet_stats, fetch,
                 listener_stats, handling>>

\* full runs only, stopped between two records or not, no write failing
WholePassNext ==
    \/ \E t \in WholeInstants : Tick(t)
    \/ \E sig \in WholeSignals :
          now = sig[4] /\ InsertSnapshot(sig[1], "w1", sig[2], sig[3])
    \/ TimedRunAll
    \/ SelectTokens
    \/ \E reply \in ProviderReplies : CheckToken(reply[1], reply[2])
    \/ EndCheckpoint
    \/ Interrupt
    \/ MainUpdateWalletStats
    \/ MainPrintReport

WholePassSpec == Init /\ [][WholePassNext]_vars

\* the checkpoint a run of one checkpoint is asked for when the earlier ones
\* were never run
LateCheckpoints == {"7d"}

\* runs of the last checkpoint alone (--checkpoint 7d) and full runs
LateNext ==
    \/ \E t \in PassInstants : Tick(t)
    \/ \E sig \in PassSignals :
          now = sig[4] /\ InsertSnapshot(sig[1], "w1", sig[2], sig[3])
    \/ StartAll
    \/ \E c \in LateCheckpoints : StartOne(c)
    \/ SelectTokens
    \/ \E reply \in ProviderReplies : CheckToken(reply[1], reply[2])
    \/ EndCheckpoint
    \/ MainUpdateWalletStats
    \/ MainPrintReport

LateSpec == Init /\ [][LateNext]_vars

-----------------------------------------------------------------------------
(* Properties of the recorder *)

\* the row of an address, before and after a step
SameRecord(r, r2) == r.contract_address = r2.contract_address

\* some checkpoint of the row has been recorded by the recorder
Recorded(r) == r.current_ath_usd # NULL

\* the stale under-report example worked through the recorder: baseline 10,
\* ATH at detection 9, fetched ATHs 20, 15, 40 at three checkpoints
UnderReportRun ==
    LET data == [contract_address |-> "A", wallet_name |-> "w1",
                 first_detected_at |-> 1, api_mc_usd |-> R(10),
                 ath_market_cap |-> R(9), ath_ratio |-> NULL]
        t0 == insert_snapshot({}, data, 1).table
        c1 == update_token_checkpoint(t0, "A", "5min",
                                      Snapshot(R(12), R(20), SomeRest), R(10))
        c2 == update_token_checkpoint(c1.table, "A", "20min",
                                      Snapshot(R(12), R(15), SomeRest), R(10))
        c3 == update_token_checkpoint(c2.table, "A", "1h",
                                      Snapshot(R(12), R(40), SomeRest), R(10))
    IN  <<c1.result.true_multiple, c2.result.true_multiple,
          c3.result.true_multiple>>

\* C1: over any sequence of recorder calls on one record the stored true
\* multiple never decreases, whatever the snapshots are; baseline 10 with
\* fetched ATHs 20, 15, 40 gives the multiples 2, 2, 4.
C1_MonotonicMultiple ==
    /\ UnderReportRun = <<R(2), R(2), R(4)>>
    /\ [][\A r \in token_snapshots : \A r2 \in token_snapshots' :
            SameRecord(r, r2) /\ r.true_multiple # NULL
            => /\ r2.true_multiple # NULL
               /\ FGe(r2.true_multiple, r.true_multiple)]_vars

\* a record whose later call saw less than an earlier one: ATH 20 and ATH 15
\* are both recorded and the multiple is 2
C1_Witness ==
    \E r \in token_snapshots :
        /\ r.api_mc_usd = R(10)
        /\ r.true_multiple = R(2)
        /\ \E c, d \in CheckpointNames :
              r.samples[c].ath = R(20) /\ r.samples[d].ath = R(15)

\* C2: the stored best-observed ATH never decreases from one recorder call to
\* the next and, once a checkpoint is recorded, is not below the ATH at
\* detection.
C2_BestAthMonotonic ==
    [][\A r2 \in token_snapshots' :
        /\ Recorded(r2) => FGe(r2.current_ath_usd, Or(r2.ath_market_cap, R(0)))
        /\ \A r \in token_snapshots :
              SameRecord(r, r2) /\ Recorded(r)
              => Recorded(r2) /\ FGe(r2.current_ath_usd, r.current_ath_usd)]_vars

\* a record whose best-observed ATH is above everything a recorded sample says
C2_Witness ==
    \E r \in token_snapshots : \E c \in CheckpointNames :
        /\ r.samples[c].mc # NULL
        /\ FLt(r.samples[c].mc, r.current_ath_usd)
        /\ FLt(r.samples[c].ath, r.current_ath_usd)
        /\ r.current_ath_usd = R(40)

\* C3: a threshold flag that is true stays true through every later recorder
\* call.
C3_FlagsMonotonic ==
    [][\A r \in token_snapshots : \A r2 \in token_snapshots' :
        SameRecord(r, r2)
        => \A n \in Thresholds : Truthy(r.reached[n]) => Truthy(r2.reached[n])]_vars

\* a record that reached 2x and not 3x at one checkpoint (ATH 20 on baseline
\* 10) and has an all-zero sample at another
C3_Witness ==
    \E r \in token_snapshots :
        /\ r.api_mc_usd = R(10)
        /\ r.ath_market_cap = R(9)
        /\ Truthy(r.reached[2]) /\ ~Truthy(r.reached[3])
        /\ \E c, d \in CheckpointNames :
              /\ r.samples[c].ath = R(20)
              /\ r.samples[d].mc = R(0) /\ r.samples[d].ath = R(0)

\* C4: no recorder call changes the exclusion flag or the stored inclusion
\* ratio of a record.
C4_ExclusionImmutable ==
    [][\A r \in token_snapshots : \A r2 \in token_snapshots' :
        SameRecord(r, r2)
        => /\ r2.excluded_from_analysis = r.excluded_from_analysis
           /\ r2.ath_ratio = r.ath_ratio]_vars

\* an included record whose best-observed ATH has grown past twice its
\* baseline market cap
C4_Witness ==
    \E r \in token_snapshots :
        /\ r.excluded_from_analysis = 0
        /\ Recorded(r)
        /\ FGt(r.current_ath_usd, FDiv(r.api_mc_usd, Frac(1, 2)))

\* C8: a scheduler call with a checkpoint name outside the seven defined
\* ones raises the invalid-checkpoint error, returns no rows and changes no
\* stored state; the recorder rejects such a name the same way, before it reads
\* or writes any record.
C8_InvalidCheckpoint ==
    /\ [](\A c \in AnyCheckpoint \ CheckpointNames :
            /\ get_tokens_for_checkpoint(token_snapshots, c, now)
                   = [raised |-> "ValueError", rows |-> {}]
            /\ \A a \in Addrs, snap \in Snapshots, mc_at_call \in McAtCall :
                  update_token_checkpoint(token_snapshots, a, c, snap, mc_at_call)
                      = [raised |-> "ValueError", table |-> token_snapshots,
                         result |-> NoResult])
    /\ [][ret'.raised = "ValueError"
            => /\ token_snapshots' = token_snapshots
               /\ ret'.op = "get_tokens_for_checkpoint" => ret'.value.rows = {}
               /\ ret'.op = "update_token_checkpoint" => ret'.value = NoResult]_vars

\* the recorder has just rejected a name while a record is due for sampling
C8_Witness ==
    /\ ret.op = "update_token_checkpoint"
    /\ ret.raised = "ValueError"
    /\ \E r \in token_snapshots : Due(r, "5min", now)

\* x is the largest of the numbers in S
IsMax(x, S) == x \in S /\ \A y \in S : FGe(x, y)

\* a value that may be unknown, read as 0 when it is
OrZero(x) == IF x = NULL THEN R(0) ELSE x

\* the row of address a after update_token_checkpoint(a, c, snap, mc_at_call)
After(a, c, snap, mc_at_call) ==
    CHOOSE r \in update_token_checkpoint(token_snapshots, a, c, snap,
                                         mc_at_call).table :
        r.contract_address = a

\* the best-observed ATH one call is to store: the largest of the stored best
\* (ATH-at-detection, or 0, if none is stored), the snapshot ATH and the
\* snapshot market cap
StoresBest(row, snap, after) ==
    IsMax(after.current_ath_usd,
          {IF row.current_ath_usd # NULL THEN row.current_ath_usd
           ELSE OrZero(row.ath_market_cap),
           OrZero(snap.current_ath), OrZero(snap.current_mc)})

\* the true multiple one call is to store when the quotient is taken over
\* base: the larger of best / base (0 when base is unknown or <= 0) and the
\* stored true multiple
StoresMultiple(row, base, after) ==
    IsMax(after.true_multiple,
          {IF base # NULL /\ FGt(base, R(0))
           THEN FDiv(after.current_ath_usd, base) ELSE R(0),
           OrZero(row.true_multiple)})

EmptySnapshot == Snapshot(R(0), R(0), NoRest)

\* the non-regression example worked through the recorder: baseline 10, a
\* first checkpoint that sees market cap 50, then an empty snapshot
NonRegressionRun ==
    LET t0 == insert_snapshot({}, Signal("A", "w1", R(10), R(9), 1), 1).table
        c1 == update_token_checkpoint(t0, "A", "5min",
                                      Snapshot(R(50), R(40), SomeRest), R(10))
        c2 == update_token_checkpoint(c1.table, "A", "20min", EmptySnapshot,
                                      R(10))
    IN  <<c1.result.best_ath, c2.result.best_ath, c2.result.true_multiple,
          c2.result.reached = c1.result.reached>>

RawTuple(snap) ==
    [mc |-> snap.current_mc, ath |-> snap.current_ath,
     holders |-> snap.holders, liquidity |-> snap.liquidity_usd,
     price |-> snap.price_usd, buys |-> snap.txns_buys,
     sells |-> snap.txns_sells]

\* C27: a recorder call for checkpoint c stores the raw tuple of that
\* checkpoint exactly as given, also when its values are below the stored
\* best or below the samples of other checkpoints, and leaves the raw tuples
\* of the other six checkpoints as they are.
C27_RawSampleStored ==
    /\ [](\A row \in token_snapshots, c \in DirectCheckpoints \cap CheckpointNames,
             snap \in Snapshots :
            \A after \in {After(row.contract_address, c, snap, R(10))} :
               /\ after.samples[c] = RawTuple(snap)
               /\ \A d \in CheckpointNames \ {c} :
                     after.samples[d] = row.samples[d])
    /\ [][ret'.op = "update_token_checkpoint" /\ ret'.value.error = "none"
            => \A r \in token_snapshots : \E r2 \in token_snapshots' :
                  /\ SameRecord(r, r2)
                  /\ \E c \in CheckpointNames :
                        /\ r2.samples[c].mc = ret'.value.current_mc
                        /\ r2.samples[c].ath = ret'.value.current_ath
                        /\ \A d \in CheckpointNames \ {c} :
                              r2.samples[d] = r.samples[d]]_vars

\* a call has just stored market cap 12 and ATH 15 at 7 days on a record
\* whose 5-minute sample holds 50 and 40 and whose stored best is 50
C27_Witness ==
    /\ ret.op = "update_token_checkpoint"
    /\ ret.value.error = "none"
    /\ ret.value.current_ath = R(15)
    /\ ret.value.best_ath = R(50)
    /\ \E r \in token_snapshots :
          /\ r.samples["5min"].mc = R(50) /\ r.samples["5min"].ath = R(40)
          /\ r.samples["7d"].mc = R(12) /\ r.samples["7d"].ath = R(15)
          /\ r.samples["7d"].holders = R(7)
          /\ r.current_ath_usd = R(50)

\* C30: after any sequence of recorder calls on a record whose baseline
\* market cap is positive, the stored true multiple is the stored best ATH
\* divided by the baseline market cap.
C30_MultipleIsBestOverBaseline ==
    \A r \in token_snapshots :
        Recorded(r) /\ Truthy(r.api_mc_usd) /\ FGt(r.api_mc_usd, R(0))
        => r.true_multiple = FDiv(r.current_ath_usd, r.api_mc_usd)

\* a call whose snapshot is below the stored best has just returned on a
\* record of baseline 10 with two checkpoints recorded: the best is still 40
\* and the multiple still 4
C30_Witness ==
    /\ ret.op = "update_token_checkpoint"
    /\ ret.value.error = "none"
    /\ ret.value.best_ath = R(40)
    /\ ret.value.current_ath # R(40)
    /\ \E r \in token_snapshots :
          /\ r.api_mc_usd = R(10)
          /\ r.current_ath_usd = R(40)
          /\ r.true_multiple = R(4)
          /\ \E c, d \in CheckpointNames :
                c # d /\ r.samples[c].mc # NULL /\ r.samples[d].mc # NULL

\* C31: after every recorder call, for each N of 2, 3, 5, 10, 20, 50, 100 the
\* flag reached_xN is set exactly when the stored true multiple is at least
\* N; so the flags are downward closed (a flag set has every lower flag set).
C31_FlagsFollowMultiple ==
    \A r \in token_snapshots :
        Recorded(r)
        => /\ \A n \in Thresholds :
                 /\ r.reached[n] \in {R(0), R(1)}
                 /\ r.reached[n] = R(1) <=> FGe(r.true_multiple, R(n))
           /\ \A n, m \in Thresholds :
                 m < n /\ r.reached[n] = R(1) => r.reached[m] = R(1)

\* a call has just returned on a record whose stored multiple is exactly 2
\* (best ATH 20 on baseline 10) after a snapshot below the best: the 2x flag
\* is set and the 3x flag is not
C31_Witness ==
    /\ ret.op = "update_token_checkpoint"
    /\ ret.value.error = "none"
    /\ ret.value.true_multiple = R(2)
    /\ ret.value.current_ath # R(20)
    /\ \E r \in token_snapshots :
          /\ r.true_multiple = R(2)
          /\ r.reached[2] = R(1)
          /\ r.reached[3] = R(0)

\* C39: a recorder call for an address that has no record creates no record,
\* changes no stored state and returns the error value 'Token not found'
\* instead of an outcome summary (with a name outside the seven checkpoints
\* it raises instead, as every call with such a name does, and changes
\* nothing either).
C39_UnknownAddress ==
    /\ [](\A a \in Addrs, c \in AnyCheckpoint, snap \in Snapshots,
             mc_at_call \in McAtCall :
            ~token_exists(token_snapshots, a)
            => \A res \in {update_token_checkpoint(token_snapshots, a, c, snap,
                                                   mc_at_call)} :
                  /\ res.table = token_snapshots
                  /\ c \in CheckpointNames
                     => /\ res.raised = "none"
                        /\ res.result = [error |-> "Token not found"])
    /\ [][ret'.op = "update_token_checkpoint"
            /\ ~token_exists(token_snapshots, "A")
            => /\ token_snapshots' = token_snapshots
               /\ wallet_stats' = wallet_stats
               /\ \/ ret'.raised = "ValueError"
                  \/ /\ ret'.raised = "none"
                     /\ ret'.value = [error |-> "Token not found"]]_vars

\* the recorder has just returned 'Token not found' for the 7-day checkpoint
\* of an address no signal was stored for, at a time past the first
C39_Witness ==
    /\ ret.op = "update_token_checkpoint"
    /\ ret.raised = "none"
    /\ ret.value = [error |-> "Token not found"]
    /\ token_snapshots = {}
    /\ used.calls = 2
    /\ now = 302

\* the checkpoints and the snapshots the recording orders are compared over
OrderCheckpoints == {"5min", "24h", "7d"}

OrderSnapshots ==
    {Snapshot(R(0), R(0), NoRest), Snapshot(R(12), R(20), SomeRest),
     Snapshot(R(50), R(40), SomeRest)}

\* the table after the recorder was called on address a for the checkpoints
\* of order, one after another, each with the snapshot assign gives it
RECURSIVE RecordedInOrder(_, _, _, _, _)
RecordedInOrder(table, a, order, assign, mc_at_call) ==
    IF order = <<>> THEN table
    ELSE RecordedInOrder(
             update_token_checkpoint(table, a, Head(order),
                                     assign[Head(order)], mc_at_call).table,
             a, Tail(order), assign, mc_at_call)

\* the outcome summary of the record of address a
OutcomeOf(table, a) ==
    {[current_ath_usd |-> r.current_ath_usd, true_multiple |-> r.true_multiple,
      reached |-> r.reached] : r \in {q \in table : q.contract_address = a}}

\* on a record as created, every order of three checkpoints gives the same
\* outcome summary and the same record
FreshOrderIndependent ==
    \A r \in {q \in token_snapshots : ~Recorded(q)}, mc_at_call \in McAtCall,
       assign \in [OrderCheckpoints -> OrderSnapshots] :
        \A first \in {RecordedInOrder(token_snapshots, r.contract_address,
                                      <<"5min", "24h", "7d">>, assign,
                                      mc_at_call)} :
           \A order \in Orders(OrderCheckpoints) :
              \A other \in {RecordedInOrder(token_snapshots,
                                            r.contract_address, order, assign,
                                            mc_at_call)} :
                 /\ OutcomeOf(other, r.contract_address)
                        = OutcomeOf(first, r.contract_address)
                 /\ other = first

\* C32: for a fixed record and a fixed assignment of snapshots to
\* checkpoints, recording the checkpoints in any order gives the same
\* best-observed ATH, true multiple and threshold flags (and the same record):
\* on every record two calls for different checkpoints give the same record
\* in either order, and on a record as created every order of three
\* checkpoints gives the same record.
C32_OrderIndependent ==
    /\ \A r \in token_snapshots, mc_at_call \in McAtCall,
          assign \in [{"5min", "7d"} -> OrderSnapshots] :
           RecordedInOrder(token_snapshots, r.contract_address,
                           <<"5min", "7d">>, assign, mc_at_call)
             = RecordedInOrder(token_snapshots, r.contract_address,
                               <<"7d", "5min">>, assign, mc_at_call)
    /\ FreshOrderIndependent

\* the 5-minute checkpoint has just been recorded (ATH 15) on a record whose
\* 7-day checkpoint was recorded before it with ATH 40: the outcome is the
\* one of the reverse order, best 40 and multiple 4
C32_Witness ==
    /\ ret.op = "update_token_checkpoint"
    /\ ret.value.error = "none"
    /\ ret.value.current_ath = R(15)
    /\ \E r \in token_snapshots :
          /\ r.samples["5min"].ath = R(15)
          /\ r.samples["7d"].ath = R(40)
          /\ r.current_ath_usd = R(40)
          /\ r.true_multiple = R(4)
          /\ r.reached[3] = R(1) /\ r.reached[5] = R(0)

\* some recorded sample of the record, ATH or market cap, is at least n
\* times its baseline market cap
SampleReaches(r, n) ==
    \E c \in CheckpointNames :
        /\ r.samples[c].mc # NULL
        /\ \/ FGe(OrZero(r.samples[c].ath), FMul(R(n), r.api_mc_usd))
           \/ FGe(OrZero(r.samples[c].mc), FMul(R(n), r.api_mc_usd))

\* C35: an included record (ratio >= 0.5) has its 2x flag set only if some
\* recorded checkpoint sample, ATH or market cap, is at least twice the
\* baseline market cap; an included record whose recorded samples are all
\* empty never counts as a 2x win.
C35_WinNeedsDoubling ==
    \A r \in token_snapshots :
        r.excluded_from_analysis = 0 /\ Truthy(r.reached[2])
        => SampleReaches(r, 2)

-----------------------------------------------------------------------------
(* Properties of record creation *)

\* the record insert_snapshot creates in an empty table for a signal with
\* this baseline market cap and ATH
Created(mc, ath) ==
    CHOOSE r \in insert_snapshot({}, Signal("A", "w1", mc, ath, 1), 1).table : TRUE

\* C9: a record created with ATH-at-detection unknown or <= 0 is excluded;
\* otherwise the stored ratio is baseline market cap / ATH-at-detection and
\* the record is excluded exactly when the ratio is below 1/2.  Baseline 10
\* with ATH 9 is included (ratio 10/9), with ATH 30 excluded (ratio 1/3).
C9_ExclusionAtCreation ==
    /\ Created(R(10), R(9)).ath_ratio = Frac(10, 9)
    /\ Created(R(10), R(9)).excluded_from_analysis = 0
    /\ Created(R(10), R(30)).ath_ratio = Frac(1, 3)
    /\ Created(R(10), R(30)).excluded_from_analysis = 1
    /\ \A r \in token_snapshots :
          LET ath      == r.ath_market_cap
              baseline == IF r.api_mc_usd = NULL THEN R(0) ELSE r.api_mc_usd
          IN  IF ath = NULL \/ FLe(ath, R(0))
              THEN r.excluded_from_analysis = 1
              ELSE /\ r.ath_ratio = FDiv(baseline, ath)
                   /\ r.excluded_from_analysis = 1
                        <=> FLt(FDiv(baseline, ath), Frac(1, 2))
                   /\ r.excluded_from_analysis \in {0, 1}

\* a stored record whose ratio is exactly one half and that is included, next
\* to a record without ATH-at-detection
C9_Witness ==
    \E r, q \in token_snapshots :
        /\ r.api_mc_usd = R(10) /\ r.ath_market_cap = R(20)
        /\ r.ath_ratio = Frac(1, 2)
        /\ r.excluded_from_analysis = 0
        /\ q.ath_market_cap = NULL /\ q.excluded_from_analysis = 1

\* C10: no two records share a contract address; insert_snapshot for an
\* address that has a record returns False and leaves the table, so every
\* field of that record, as it was.
C10_OneRecordPerAddress ==
    /\ [](\A r, q \in token_snapshots :
            r.contract_address = q.contract_address => r = q)
    /\ [](\A r \in token_snapshots, w \in Wallets, b \in DirectBaselines :
            insert_snapshot(token_snapshots,
                            Signal(r.contract_address, w, b[1], b[2], now), now)
                = [table |-> token_snapshots, inserted |-> FALSE])
    /\ [][ret'.op = "insert_snapshot"
            => /\ token_snapshots \subseteq token_snapshots'
               /\ ret'.value.inserted = FALSE <=> token_snapshots' = token_snapshots
               /\ \A r2 \in token_snapshots' \ token_snapshots :
                     ~token_exists(token_snapshots, r2.contract_address)]_vars

\* an insert has just been refused for an address whose record was created
\* earlier, with another baseline, and has a checkpoint recorded
C10_Witness ==
    /\ ret.op = "insert_snapshot"
    /\ ret.value.inserted = FALSE
    /\ \E r \in token_snapshots :
          /\ r.first_detected_at < now
          /\ r.api_mc_usd = NULL
          /\ Recorded(r)
          /\ r.samples["5min"].mc # NULL

-----------------------------------------------------------------------------
(* Properties of recorder calls made side by side *)

\* what the recorder call process p has completed computed as best ATH
BestOf(p) ==
    BestAth(inflight[p].row, inflight[p].snap.current_mc,
            inflight[p].snap.current_ath)

\* C11: when two recorder calls on one record, for different checkpoints,
\* have both completed, however they overlapped, no update is lost: the stored
\* best-observed ATH is the larger of what the two calls computed from the
\* best they read and their snapshots, the stored true multiple is not below
\* that best over the baseline, and a flag is set exactly when the stored
\* multiple has reached its threshold.
C11_NoLostUpdate ==
    \A p, q \in Recorders :
        ( /\ p # q
          /\ inflight[p].pc = "done" /\ inflight[q].pc = "done"
          /\ inflight[p].contract_address = inflight[q].contract_address
          /\ inflight[p].checkpoint # inflight[q].checkpoint )
        => \A r \in token_snapshots :
              r.contract_address = inflight[p].contract_address
              => /\ r.current_ath_usd = FMax(BestOf(p), BestOf(q))
                 /\ Truthy(r.api_mc_usd)
                    => FGe(r.true_multiple,
                           FDiv(r.current_ath_usd, r.api_mc_usd))
                 /\ \A n \in Thresholds :
                       Truthy(r.reached[n]) <=> FGe(r.true_multiple, R(n))

-----------------------------------------------------------------------------
(* Properties of the statistics *)

\* C19: the global 2x, 5x and 10x counts of get_global_stats count only
\* records that are terminal and included, so each is at most the included
\* count and the global win rate is at most 100%.
C19_HitsAmongIncluded ==
    token_snapshots # {}
    => \A stats \in {get_global_stats(token_snapshots)} :
          /\ stats.total_x2
                = R(Cardinality({r \in token_snapshots :
                      /\ Terminal(r) /\ r.excluded_from_analysis = 0
                      /\ Truthy(r.reached[2])}))
          /\ FLe(stats.total_x2, stats.included_tokens)
          /\ FLe(stats.total_x5, stats.included_tokens)
          /\ FLe(stats.total_x10, stats.included_tokens)
          /\ FGt(stats.included_tokens, R(0))
             => FLe(FMul(FDiv(stats.total_x2, stats.included_tokens), R(100)),
                    R(100))

\* C20: get_global_stats reports total = the number of records, included =
\* the number of terminal included records and excluded = the number of
\* terminal excluded records: N + M, N and M when all N included and M
\* excluded records are terminal.
C20_GlobalCounts ==
    \A stats \in {get_global_stats(token_snapshots)} :
        LET N == Cardinality({r \in token_snapshots :
                    Terminal(r) /\ r.excluded_from_analysis = 0})
            M == Cardinality({r \in token_snapshots :
                    Terminal(r) /\ r.excluded_from_analysis = 1})
        IN  /\ stats.total_tokens = R(Cardinality(token_snapshots))
            /\ stats.included_tokens = R(N)
            /\ stats.excluded_tokens = R(M)
            /\ (\A r \in token_snapshots : Terminal(r))
               => stats.total_tokens = R(N + M)

\* x + y
FAdd(x, y) == Frac(x[1] * y[2] + y[1] * x[2], x[2] * y[2])

\* C36: in every reachable state get_global_stats has checked = included +
\* excluded, three counts: every terminal record is counted in exactly one of
\* the included and the excluded.
C36_CheckedIsPartition ==
    \A stats \in {get_global_stats(token_snapshots)} :
        /\ stats.checked_tokens # NULL
        /\ stats.included_tokens # NULL
        /\ stats.excluded_tokens # NULL
        /\ stats.checked_tokens
              = FAdd(stats.included_tokens, stats.excluded_tokens)

\* the included, terminal records of wallet w
CompletedOf(w) ==
    {r \in token_snapshots :
        /\ r.wallet_name = w
        /\ r.samples["7d"].mc # NULL
        /\ r.excluded_from_analysis = 0}

\* those of them that have the 2x flag
HitsAmong(records) == {r \in records : Truthy(r.reached[2])}

\* C21: the wallet breakdown of get_wallet_stats_detailed holds exactly the
\* wallets with at least 3 included, terminal records, once each, with total
\* and 2x-hit count taken over those records only, in the order of win rate
\* (hits / total), highest first; a wallet with fewer such records is absent.
C21_WalletBreakdown ==
    /\ get_wallet_stats_detailed(token_snapshots) # {}
    /\ \A list \in get_wallet_stats_detailed(token_snapshots) :
          /\ {list[k].wallet_name : k \in DOMAIN list}
                = {w \in Wallets : Cardinality(CompletedOf(w)) >= 3}
          /\ \A i, j \in DOMAIN list :
                /\ list[i].wallet_name = list[j].wallet_name => i = j
                /\ i < j
                   => FGe(FDiv(list[i].x2_count, list[i].total),
                          FDiv(list[j].x2_count, list[j].total))
          /\ \A k \in DOMAIN list :
                /\ list[k].total
                      = R(Cardinality(CompletedOf(list[k].wallet_name)))
                /\ list[k].x2_count
                      = R(Cardinality(HitsAmong(CompletedOf(list[k].wallet_name))))
    /\ ret.op = "get_wallet_stats_detailed"
       => ret.value.list \in get_wallet_stats_detailed(token_snapshots)

\* the breakdown just read lists w2 (2 hits of 3) before w1 (1 hit of 3)
C21_Witness ==
    /\ ret.op = "get_wallet_stats_detailed"
    /\ Len(ret.value.list) = 2
    /\ ret.value.list[1].wallet_name = "w2"
    /\ ret.value.list[1].x2_count = R(2)
    /\ ret.value.list[2].wallet_name = "w1"
    /\ ret.value.list[2].x2_count = R(1)
    /\ ret.value.list[2].total = R(3)

\* the counts of a wallet summary, without the refresh timestamps
CountsOf(stats) ==
    {[wallet_name |-> row.wallet_name, total_signals |-> row.total_signals,
      total_x2 |-> row.total_x2, winrate |-> row.winrate] : row \in stats}

\* C22: after update_wallet_stats every wallet with at least one included,
\* terminal record has one summary row, with total = the number of such
\* records, hits = the number of them with the 2x flag and win rate = hits /
\* total * 100, between 0 and 100; the rows are recomputed from the records,
\* so a second refresh with no record changed gives the same counts.
C22_WalletSummaryRecomputed ==
    /\ [][ret'.op = "update_wallet_stats"
            => \A w \in Wallets :
                  CompletedOf(w) # {}
                  => /\ Cardinality({row \in wallet_stats' :
                                        row.wallet_name = w}) = 1
                     /\ \A row \in wallet_stats' :
                           row.wallet_name = w
                           => /\ row.total_signals
                                    = R(Cardinality(CompletedOf(w)))
                              /\ row.total_x2
                                    = R(Cardinality(HitsAmong(CompletedOf(w))))
                              /\ row.winrate
                                    = FMul(FDiv(row.total_x2, row.total_signals),
                                           R(100))
                              /\ FGe(row.winrate, R(0))
                              /\ FLe(row.winrate, R(100))]_vars
    /\ [](\A once \in {update_wallet_stats(token_snapshots, wallet_stats, now)} :
            CountsOf(update_wallet_stats(token_snapshots, once, now + 1))
                = CountsOf(once))
    /\ [][ret.op = "update_wallet_stats" /\ ret'.op = "update_wallet_stats"
            => CountsOf(wallet_stats') = CountsOf(wallet_stats)]_vars

\* the summary just refreshed holds w1 with 1 hit of 3 records and w2 with 2
\* hits of 2, while a third record of w2 is stored and not terminal
C22_Witness ==
    /\ ret.op = "update_wallet_stats"
    /\ \E row, row2 \in wallet_stats :
          /\ row.wallet_name = "w1"
          /\ row.total_signals = R(3) /\ row.total_x2 = R(1)
          /\ row.winrate = Frac(100, 3)
          /\ row2.wallet_name = "w2"
          /\ row2.total_signals = R(2) /\ row2.winrate = R(100)
    /\ \E r \in token_snapshots :
          r.wallet_name = "w2" /\ r.samples["7d"].mc = NULL

\* C26: the report-only command makes no provider call, leaves every record
\* and every wallet summary row as it is, and prints the report from what is
\* stored, whether or not a pass has ever run.
C26_ReportOnlyPrints ==
    [][pass.pc = "idle" /\ ret'.op = "print_report"
        => /\ token_snapshots' = token_snapshots
           /\ wallet_stats' = wallet_stats
           /\ fetch' = fetch
           /\ used' = used
           /\ ret'.raised = "none"
           /\ ret'.value.error = "none"
           /\ ret'.value.total = R(Cardinality(token_snapshots))]_vars

-----------------------------------------------------------------------------
(* Properties of the scheduler and of the check passes *)

\* the addresses get_tokens_for_checkpoint(checkpoint) returns now
Selected(checkpoint) ==
    {r.contract_address :
        r \in get_tokens_for_checkpoint(token_snapshots, checkpoint, now).rows}

\* check_token has just recorded checkpoint c on the record of address a
JustChecked(a, c) ==
    /\ pass.pc = "loop"
    /\ ret.op = "check_token"
    /\ ret.value.error = "none"
    /\ Head(pass.todo) = c
    /\ pass.tokens[pass.i - 1].contract_address = a

\* C5: once check_token has recorded checkpoint c on a record, no later
\* get_tokens_for_checkpoint(c) returns that record, at whatever time it is
\* called and whatever the providers answered.
C5_RecordedNeverSelected ==
    \A a \in Addrs, c \in CheckpointNames :
        [](JustChecked(a, c)
            => [](/\ a \notin Selected(c)
                  /\ ( /\ ret.op = "get_tokens_for_checkpoint"
                        /\ pass.pc = "loop"
                        /\ Head(pass.todo) = c )
                     => \A k \in DOMAIN pass.tokens :
                           pass.tokens[k].contract_address # a))

\* a later pass has just selected the tokens of a checkpoint that is recorded
\* on A from a failed fetch (market cap 0) and that A is old enough for: the
\* selection holds another record and not A
C5_Witness ==
    /\ pass.pc = "loop"
    /\ ret.op = "get_tokens_for_checkpoint"
    /\ Len(pass.tokens) > 0
    /\ \A k \in DOMAIN pass.tokens : pass.tokens[k].contract_address # "A"
    /\ \E r \in token_snapshots :
          /\ r.contract_address = "A"
          /\ r.samples[Head(pass.todo)].mc = R(0)
          /\ r.first_detected_at < now - CHECKPOINTS[Head(pass.todo)]

\* the sample of a checkpoint whose fetch found nothing
ZeroSample(sample) == sample.mc = R(0) /\ sample.ath = R(0)

\* C14: when check_token checks a record and the fetch yields the empty
\* snapshot (market cap 0, ATH 0), the checkpoint is written with market cap
\* 0; a checkpoint written so stays so, and no selection for that checkpoint,
\* at any time in any pass, holds the record.
C14_EmptyFetchIsSampled ==
    /\ [](\A r \in token_snapshots, c \in CheckpointNames :
            ZeroSample(r.samples[c])
            => /\ r.contract_address \notin Selected(c)
               /\ ( /\ ret.op = "get_tokens_for_checkpoint"
                     /\ pass.pc = "loop"
                     /\ Head(pass.todo) = c )
                  => \A k \in DOMAIN pass.tokens :
                        pass.tokens[k].contract_address # r.contract_address)
    /\ [][( /\ ret'.op = "check_token"
             /\ ret'.value.error = "none"
             /\ ret'.value.current_mc = R(0)
             /\ ret'.value.current_ath = R(0) )
           => \E q \in token_snapshots' :
                 /\ q.contract_address = pass.tokens[pass.i].contract_address
                 /\ Truthy(q.api_mc_usd)
                 /\ ZeroSample(q.samples[Head(pass.todo)])]_vars
    /\ [][\A r \in token_snapshots, c \in CheckpointNames :
             ZeroSample(r.samples[c])
             => \E r2 \in token_snapshots' :
                   SameRecord(r, r2) /\ r2.samples[c] = r.samples[c]]_vars

\* check_token has just written a checkpoint of A from a fetch that found
\* nothing, in a pass that selected A and B, and A is no longer selected
C14_Witness ==
    /\ ret.op = "check_token"
    /\ ret.value.error = "none"
    /\ ret.value.current_mc = R(0) /\ ret.value.current_ath = R(0)
    /\ Len(pass.tokens) = 2
    /\ \E c \in CheckpointNames :
          /\ JustChecked("A", c)
          /\ "A" \notin Selected(c)
          /\ \E r \in token_snapshots :
                /\ r.contract_address = "A"
                /\ r.samples[c].mc = R(0)
                /\ r.first_detected_at < now - CHECKPOINTS[c]

\* the record has no usable baseline market cap
NoBaseline(r) == r.api_mc_usd = NULL \/ FLe(r.api_mc_usd, R(0))

\* C15: check_token skips a record whose baseline market cap is missing or
\* <= 0: it fetches nothing and leaves the table as it is, so no checkpoint or
\* summary field of such a record is ever written, and every selection for a
\* checkpoint the record is old enough for returns it.
C15_NoBaselineSkipped ==
    /\ [](\A r \in token_snapshots :
            NoBaseline(r)
            => /\ r.current_ath_usd = NULL /\ r.true_multiple = NULL
               /\ \A n \in Thresholds : r.reached[n] = NULL
               /\ \A c \in CheckpointNames :
                     /\ r.samples[c] = NullSample
                     /\ r.first_detected_at < now - CHECKPOINTS[c]
                        => r.contract_address \in Selected(c)
                     /\ \A reply \in ProviderReplies :
                           LET res == check_token(token_snapshots, TokenOf(r), c,
                                                  reply[1], reply[2])
                           IN  /\ ~res.fetched
                               /\ res.raised = "none"
                               /\ res.table = token_snapshots)
    /\ [][ret'.op = "check_token"
            => \E r \in token_snapshots :
                  /\ r.contract_address = pass.tokens[pass.i].contract_address
                  /\ NoBaseline(r) <=> ret'.value.error = "skipped"
                  /\ NoBaseline(r)
                     => /\ token_snapshots' = token_snapshots
                        /\ used'.failures = used.failures]_vars

\* in a second run, check_token has just skipped B, which has no baseline
\* market cap, at a checkpoint an earlier run has recorded on A, detected at
\* the same instant
C15_Witness ==
    /\ used.runs = 2
    /\ pass.pc = "loop"
    /\ ret.op = "check_token"
    /\ ret.value.error = "skipped"
    /\ pass.tokens[pass.i - 1].contract_address = "B"
    /\ \E r, q \in token_snapshots :
          /\ r.contract_address = "A" /\ q.contract_address = "B"
          /\ r.first_detected_at = q.first_detected_at
          /\ r.samples[Head(pass.todo)].mc # NULL
          /\ q.api_mc_usd = R(0)
          /\ "B" \in Selected(Head(pass.todo))

\* C16: when one or both provider calls of a check fail, the fields that
\* call feeds degrade (market cap 0 and holders, liquidity, price, buys, sells
\* unknown for /tokens; ATH 0 for /ath) while the others keep what was
\* fetched; the recorder is called with these values and writes the
\* checkpoint, and the record counts as processed.
C16_FailedFetchRecorded ==
    /\ [](\A token_data \in TokenReplies, ath_data \in AthReplies :
            \A data \in {fetch_token_data(token_data, ath_data)} :
               /\ data.current_mc = IF token_data = NULL THEN R(0) ELSE R(12)
               /\ data.holders = IF token_data = NULL THEN NULL ELSE R(7)
               /\ data.liquidity_usd = IF token_data = NULL THEN NULL ELSE R(3)
               /\ data.price_usd = IF token_data = NULL THEN NULL ELSE Frac(1, 4)
               /\ data.txns_buys = IF token_data = NULL THEN NULL ELSE R(5)
               /\ data.txns_sells = IF token_data = NULL THEN NULL ELSE R(2)
               /\ data.current_ath = IF ath_data = NULL THEN R(0) ELSE R(20)
               /\ \A r \in token_snapshots,
                     c \in OneCheckpoints \cap CheckpointNames :
                     ~NoBaseline(r)
                     => \A res \in {check_token(token_snapshots, TokenOf(r), c,
                                                token_data, ath_data)} :
                           /\ res.fetched
                           /\ res.raised = "none"
                           /\ res.result.error = "none"
                           /\ res.result.current_mc = data.current_mc
                           /\ res.result.current_ath = data.current_ath
                           /\ \E r2 \in res.table :
                                 /\ SameRecord(r, r2)
                                 /\ r2.samples[c] = SampleOf(data)
                                 /\ r2.samples[c].mc # NULL)
    /\ [][( /\ ret'.op = "check_token"
             /\ ret'.raised = "none"
             /\ ret'.value.error # "skipped"
             /\ (ret'.value.current_mc = R(0) \/ ret'.value.current_ath = R(0)) )
           => /\ ret'.value.error = "none"
              /\ pass'.pc = "loop"
              /\ pass'.processed = pass.processed + 1
              /\ \E r2 \in token_snapshots' :
                    /\ r2.contract_address = pass.tokens[pass.i].contract_address
                    /\ r2.samples[Head(pass.todo)].mc = ret'.value.current_mc
                    /\ r2.samples[Head(pass.todo)].ath = ret'.value.current_ath]_vars

\* the second record of a pass has just been checked with both provider
\* calls failing: its checkpoint holds market cap 0 and unknown holders, and
\* both records of the pass count as processed
C16_Witness ==
    /\ ret.op = "check_token"
    /\ ret.value.error = "none"
    /\ ret.value.current_mc = R(0) /\ ret.value.current_ath = R(0)
    /\ pass.pc = "loop"
    /\ pass.i = 3
    /\ pass.processed = 2
    /\ \E r \in token_snapshots :
          /\ r.contract_address = pass.tokens[2].contract_address
          /\ r.samples[Head(pass.todo)].mc = R(0)
          /\ r.samples[Head(pass.todo)].holders = NULL

\* C17: when the write of one record fails during a pass, the pass goes on
\* with the next record of its selection: the run is not aborted.
C17_WriteFailureConfined ==
    [][ret'.raised = "OperationalError"
        => /\ token_snapshots' = token_snapshots
           /\ pass'.pc = "loop"
           /\ pass'.todo = pass.todo
           /\ pass'.tokens = pass.tokens
           /\ pass'.i = pass.i + 1]_vars

\* the addresses of the records that are past the age of checkpoint c and
\* have nothing recorded for it
DueUnrecorded(c) ==
    {r.contract_address :
        r \in {q \in token_snapshots :
                 /\ now - q.first_detected_at > CHECKPOINTS[c]
                 /\ q.samples[c] = NullSample}}

\* C18: whatever happened to earlier runs, interrupted between two records
\* or not, a run selects for a checkpoint exactly the due records with
\* nothing recorded for it, and fetches and writes only records it selected
\* so: a checkpoint written before an interruption is not written again.
C18_ResumeAfterInterrupt ==
    /\ []( ( /\ ret.op = "get_tokens_for_checkpoint"
             /\ ret.raised = "none"
             /\ pass.pc = "loop" )
           => /\ {pass.tokens[k].contract_address : k \in DOMAIN pass.tokens}
                     = DueUnrecorded(Head(pass.todo))
              /\ Len(pass.tokens) = Cardinality(DueUnrecorded(Head(pass.todo))) )
    /\ [][ret'.op = "check_token" /\ ret'.raised = "none"
            => \A r \in token_snapshots, c \in CheckpointNames :
                  \/ /\ r.contract_address = pass.tokens[pass.i].contract_address
                     /\ c = Head(pass.todo)
                     /\ r.samples[c] = NullSample
                  \/ \E r2 \in token_snapshots' :
                        SameRecord(r, r2) /\ r2.samples[c] = r.samples[c]]_vars

\* a run of the 24h checkpoint has just selected B alone: A and B were both
\* due in the earlier run, which recorded A and ended before it reached B
C18_Witness ==
    /\ used.runs = 2
    /\ ret.op = "get_tokens_for_checkpoint"
    /\ pass.pc = "loop"
    /\ Head(pass.todo) = "24h"
    /\ Len(pass.tokens) = 1
    /\ pass.tokens[1].contract_address = "B"
    /\ \E r, q \in token_snapshots :
          /\ r.contract_address = "A" /\ q.contract_address = "B"
          /\ r.samples["24h"].mc # NULL
          /\ r.samples["5min"].mc = NULL
          /\ q.api_mc_usd = R(10)
          /\ q.current_ath_usd = NULL

\* C23: the recorder accepts a write of any checkpoint on a stored record,
\* whichever other checkpoints of the record are set or unset: it raises
\* nothing, reports no error and writes the sample.  So a record can have its
\* 24-hour sample while its 1-hour sample is unset, and have the 1-hour
\* sample recorded afterwards.
C23_AnyOrderAccepted ==
    /\ [](\A r \in token_snapshots, c \in CheckpointNames,
             snap \in {fetch_token_data(LiveToken, NULL)} :
            \A res \in {update_token_checkpoint(token_snapshots,
                            r.contract_address, c, snap, r.api_mc_usd)} :
               /\ res.raised = "none"
               /\ res.result.error = "none"
               /\ \E r2 \in res.table :
                     /\ SameRecord(r, r2)
                     /\ r2.samples[c].mc = snap.current_mc
                     /\ r2.samples[c].ath = snap.current_ath
                     /\ \A d \in CheckpointNames \ {c} :
                           r2.samples[d] = r.samples[d])
    /\ [][\A r \in token_snapshots :
            ( /\ ret'.op = "check_token"
              /\ ret'.raised = "none"
              /\ r.contract_address = pass.tokens[pass.i].contract_address
              /\ ~NoBaseline(r) )
            => /\ ret'.value.error = "none"
               /\ \E r2 \in token_snapshots' :
                     /\ SameRecord(r, r2)
                     /\ r2.samples[Head(pass.todo)].mc # NULL]_vars

\* a run of every checkpoint has just recorded the 1-hour sample of A, whose
\* 24-hour sample an earlier run of that one checkpoint recorded
C23_Witness ==
    /\ used.runs = 2
    /\ JustChecked("A", "1h")
    /\ Len(pass.todo) = 5
    /\ \E r \in token_snapshots :
          /\ r.contract_address = "A"
          /\ r.samples["24h"].mc = R(0)
          /\ r.samples["1h"].mc = R(12)
          /\ r.samples["3h"].mc = NULL

\* C24: under runs of every checkpoint that go on being started and are not
\* stopped, on a store that works, every record with a positive baseline
\* market cap that is more than 7 days old gets its 7-day checkpoint, however
\* late the first run comes and whatever the provider calls return.
C24_EventuallyTerminal ==
    \A a \in Addrs :
        (\E r \in token_snapshots :
            /\ r.contract_address = a
            /\ ~NoBaseline(r)
            /\ now - r.first_detected_at > CHECKPOINTS["7d"])
        ~> (\E r \in token_snapshots :
               r.contract_address = a /\ r.samples["7d"].mc # NULL)

\* A and B, detected 301 seconds apart, are both terminal: the 7-day
\* checkpoint of B comes from a fetch that found nothing, the one of A from a
\* fetch that answered, after a failed fetch at 6 hours
C24_Witness ==
    /\ now = 605103
    /\ pass.pc = "idle"
    /\ \E r, q \in token_snapshots :
          /\ r.contract_address = "A" /\ q.contract_address = "B"
          /\ q.first_detected_at = 302
          /\ q.samples["7d"].mc = R(0)
          /\ r.samples["6h"].mc = R(0)
          /\ r.samples["7d"].mc = R(12)

\* C25: within a pass records are processed one at a time.  The two
\* provider calls of a record are issued together; the calls in flight are
\* those of the current record of the loop, and every record before it in the
\* selection has been skipped or has its checkpoint written; the recorder
\* runs only when both calls have returned, and leaves no call in flight.
C25_OneRecordAtATime ==
    /\ [](fetch.pc = "gather"
            => /\ pass.pc = "loop"
               /\ pass.i <= Len(pass.tokens)
               /\ fetch.contract_address = pass.tokens[pass.i].contract_address
               /\ \A k \in 1..(pass.i - 1) :
                     \E r \in token_snapshots :
                        /\ r.contract_address = pass.tokens[k].contract_address
                        /\ \/ NoBaseline(r)
                           \/ r.samples[Head(pass.todo)].mc # NULL)
    /\ [][fetch.pc = "idle" /\ fetch'.pc = "gather"
            => /\ fetch'.token_data = Pending
               /\ fetch'.ath_data = Pending
               /\ token_snapshots' = token_snapshots]_vars
    /\ [][ret'.op = "check_token" /\ ret'.value.error # "skipped"
            => /\ fetch.pc = "gather"
               /\ fetch.token_data.done
               /\ fetch.ath_data.done
               /\ fetch' = NoFetch
               /\ pass'.i = pass.i + 1]_vars

\* the calls of the second record of a pass are in flight, the ATH call has
\* returned before the token call, and the first record has been written
C25_Witness ==
    /\ fetch.pc = "gather"
    /\ fetch.ath_data.done
    /\ ~fetch.token_data.done
    /\ pass.i = 2
    /\ \E r \in token_snapshots :
          /\ r.contract_address = pass.tokens[1].contract_address
          /\ r.samples[Head(pass.todo)].mc = R(12)

\* C28: a recorder call for one address changes no field of a record of
\* another address, whether the call writes, finds no record, rejects the
\* checkpoint name or fails in its write.
C28_OtherRecordsUntouched ==
    /\ [](\A a \in Addrs, c \in OneCheckpoints,
             snap \in {fetch_token_data(LiveToken, NULL)} :
            \A res \in {update_token_checkpoint(token_snapshots, a, c, snap,
                                                 R(10))} :
               /\ \A r \in token_snapshots :
                     r.contract_address # a => r \in res.table
               /\ Cardinality(res.table) = Cardinality(token_snapshots))
    /\ [][ret'.op = "check_token"
            => \A r \in token_snapshots :
                  r.contract_address # pass.tokens[pass.i].contract_address
                  => r \in token_snapshots']_vars

\* check_token has just recorded a checkpoint of A with ATH 20 in a pass that
\* recorded it on B before, from a fetch that failed: B still has market cap
\* 0 there and its best at the ATH of its detection
C28_Witness ==
    /\ ret.op = "check_token"
    /\ ret.value.error = "none"
    /\ ret.value.best_ath = R(20)
    /\ pass.i = 3
    /\ \E c \in CheckpointNames :
          /\ JustChecked("A", c)
          /\ \E r, q \in token_snapshots :
                /\ r.contract_address = "A" /\ q.contract_address = "B"
                /\ r.current_ath_usd = R(20)
                /\ q.samples[c].mc = R(0)
                /\ q.current_ath_usd = R(9)

\* the ATH-at-detection of a record and the ATH and market cap of each of its
\* recorded checkpoints
Readings(r) ==
    (IF r.ath_market_cap = NULL THEN {} ELSE {r.ath_market_cap})
    \cup UNION {{r.samples[c].ath, r.samples[c].mc} :
                  c \in {d \in CheckpointNames : r.samples[d].mc # NULL}}

\* C29: in every state the check passes reach, a record with at least one
\* recorded checkpoint has as its best-observed ATH the largest of its
\* ATH-at-detection and the ATH and market cap of all its recorded samples.
C29_BestIsRunningMax ==
    \A r \in token_snapshots :
        (\E c \in CheckpointNames : r.samples[c].mc # NULL)
        => /\ r.current_ath_usd # NULL
           /\ IsMax(r.current_ath_usd, Readings(r))

\* after a fetch that answered (ATH 20) at one checkpoint, check_token has
\* just recorded a fetch that found nothing at another: the best of the
\* record, detected with an ATH of 9, is still 20
C29_Witness ==
    /\ ret.op = "check_token"
    /\ ret.value.error = "none"
    /\ ret.value.current_ath = R(0)
    /\ ret.value.best_ath = R(20)
    /\ \E r \in token_snapshots :
          /\ r.ath_market_cap = R(9)
          /\ r.current_ath_usd = R(20)
          /\ \E c, d \in CheckpointNames :
                r.samples[c].ath = R(20) /\ r.samples[d].ath = R(0)

\* the smallest difference between the delay of the 7-day checkpoint and the
\* delay of an earlier one: six days
ShortestGap == CHECKPOINTS["7d"] - CHECKPOINTS["24h"]

\* every checkpoint of the record is set
AllSet(r) == \A c \in CheckpointNames : r.samples[c].mc # NULL

\* C33 as stated: when checkpoints are only run as full passes, stopped
\* between records or not, and no write fails, a record whose 7-day checkpoint
\* is set has all six earlier checkpoints set.
C33_TerminalHasAll ==
    \A r \in token_snapshots : Terminal(r) => AllSet(r)

\* C33, amended: under the same runs, when a pass that began less than six
\* days ago sets the 7-day checkpoint of a record, the record has all six
\* earlier checkpoints set.
C33_TerminalHasAllInShortPass ==
    [][\A r \in token_snapshots : \A r2 \in token_snapshots' :
          /\ SameRecord(r, r2)
          /\ ~Terminal(r)
          /\ Terminal(r2)
          /\ now - pass.began < ShortestGap
          => AllSet(r2)]_vars

\* a pass that began at 100000 has just set the 7-day checkpoint of the
\* record detected at 1, the clock having gone on to 604802 during the pass
C33_Witness ==
    /\ ret.op = "check_token"
    /\ ret.value.error = "none"
    /\ pass.pc = "loop"
    /\ Head(pass.todo) = "7d"
    /\ pass.began = 100000
    /\ now = 604802
    /\ \E r \in token_snapshots :
          r.first_detected_at = 1 /\ Terminal(r) /\ AllSet(r)

\* the outcome summary of a record
Summary(r) ==
    [current_ath_usd |-> r.current_ath_usd, true_multiple |-> r.true_multiple,
     reached |-> r.reached]

\* C34 as stated: once the 7-day checkpoint of a record is set, no later
\* step of a checkpoint pass changes its best-observed ATH, its true multiple
\* or its threshold flags.
C34_TerminalIsFinal ==
    [][\A r \in token_snapshots : \A r2 \in token_snapshots' :
          SameRecord(r, r2) /\ Terminal(r) => Summary(r2) = Summary(r)]_vars

\* C34, amended: once all seven checkpoints of a record are set, no later
\* step of a checkpoint pass changes the record.
C34_CompleteIsFinal ==
    [][\A r \in token_snapshots : \A r2 \in token_snapshots' :
          SameRecord(r, r2) /\ AllSet(r) => r2 = r]_vars

\* the second run has selected for a checkpoint and has left out the record
\* whose seven checkpoints are set
C34_Witness ==
    /\ used.runs = 2
    /\ pass.pc = "loop"
    /\ ret.op = "get_tokens_for_checkpoint"
    /\ \E r \in token_snapshots :
          /\ AllSet(r)
          /\ \A row \in ret.value.rows : ~SameRecord(row, r)

\* C37: a checkpoint pass (run_checkpoint) terminates, and during it each
\* record the scheduler returned is fetched and handed to the recorder at
\* most once: the records of the selection are distinct, the loop takes them
\* one after another, each check is of the record the loop is at and moves the
\* loop on, also when its fetch failed or found nothing.
C37_PassTerminatesOncePerRecord ==
    /\ [](pass.pc = "loop"
            => /\ pass.i \in 1..(Len(pass.tokens) + 1)
               /\ \A j, k \in DOMAIN pass.tokens :
                     pass.tokens[j].contract_address
                        = pass.tokens[k].contract_address => j = k)
    /\ [][pass.pc = "loop" /\ pass'.pc = "loop"
            => /\ pass'.tokens = pass.tokens
               /\ pass'.todo = pass.todo
               /\ IF ret'.op = "check_token"
                  THEN /\ pass'.i = pass.i + 1
                       /\ \A r \in token_snapshots :
                             r.contract_address
                                # pass.tokens[pass.i].contract_address
                             => r \in token_snapshots'
                  ELSE pass'.i = pass.i]_vars
    /\ (pass.pc = "loop") ~> (pass.pc # "loop")

\* the loop of a run has gone past its two records: the fetch of the last one
\* failed and was recorded as found nothing
C37_Witness ==
    /\ pass.pc = "loop"
    /\ Len(pass.tokens) = 2
    /\ pass.i = 3
    /\ ret.op = "check_token"
    /\ ret.value.error = "none"
    /\ ret.value.current_mc = R(0)

\* C6: through passes run one after another, the fields of a checkpoint that
\* are set on a record are never written again.
C6_WrittenOnce ==
    [][\A r \in token_snapshots : \A r2 \in token_snapshots' :
        SameRecord(r, r2)
        => \A c \in CheckpointNames :
              r.samples[c] # NullSample => r2.samples[c] = r.samples[c]]_vars

\* a later pass has just recorded on B a checkpoint that an earlier pass
\* recorded on A with other values
C6_Witness ==
    /\ used.runs > 1
    /\ ret.op = "check_token"
    /\ \E c \in CheckpointNames :
          /\ JustChecked("B", c)
          /\ \E r, q \in token_snapshots :
                /\ r.contract_address = "A" /\ q.contract_address = "B"
                /\ r.samples[c].mc = R(0)
                /\ q.samples[c].mc = R(12)

\* C7: get_tokens_for_checkpoint(c) returns exactly the records whose age is
\* at least the duration of c and whose checkpoint c is unset, excluded
\* records as well as included ones.
C7_AgedAndUnset ==
    \A c \in CheckpointNames :
        get_tokens_for_checkpoint(token_snapshots, c, now).rows
            = {r \in token_snapshots :
                  /\ now - r.first_detected_at >= CHECKPOINTS[c]
                  /\ r.samples[c].mc = NULL}

====
